---------------------------- MODULE Spec2Model ----------------------------
(***************************************************************************)
(* A model of the natural-language task pipeline of Mcp-todo:              *)
(*   ai/parsers.py      validate_task_data, parse_task_metadata and the    *)
(*                      keyword extractors,                                *)
(*   ai/groq_client.py  GroqClient.parse_task_from_nl (the decoder),       *)
(*   ai/agent.py        TaskAgent.parse_task_nl, find_matching_task.       *)
(*                                                                         *)
(* Python strings are sequences of one-character strings.  A Python value  *)
(* (a JSON value after json.loads) is a record                             *)
(*     [kind, s, items, d]                                                 *)
(* kind "str": s is the text; kind "num": s is the decimal text;           *)
(* kind "null": None; kind "list": items; kind "dict": d maps keys to      *)
(* values.  Unused fields are empty.                                       *)
(***************************************************************************)
EXTENDS Integers, Sequences, FiniteSets, TLC

VARIABLES
    \* validate_task_data applied once and then to its own output
    task_data, validated, revalidated, vstep,
    \* the decoder of parse_task_from_nl applied to a model response
    response, decoded, dstep,
    \* find_matching_task
    task_match, tasks, matched, mstep,
    \* TaskAgent.parse_task_nl as a process
    natural_language, reply, pc, task_data_list, idx, validated_list,
    draft, outcome, trace,
    \* the fallback extractor applied to a text
    input_text, extracted, due_calls, estep,
    \* the smart tool handlers and the endpoints: the handler called, its
    \* natural-language argument, what the model API and the store will do,
    \* the rows the store lists, the calls made to the store, the reply
    tool, arguments, chat, all_tasks, db_raises, update_info, db_calls,
    tool_reply, hstep,
    \* the name and the arguments given to the MCP dispatcher or to a CRUD
    \* handler, and the call of db.create_task that fails (0: none)
    tool_name, tool_args, fail_at,
    \* call_tool: the list it returned, the handlers it called and the
    \* exception it let through ("" when it returned)
    tool_result, handlers_called, call_raised,
    \* two threads in get_groq_client or get_task_agent: the function called,
    \* the module-level handles, how often each constructor ran, where each
    \* thread is, the instance it built, the one it was returned, and
    \* whether it found the handle unset
    getter, handle, constructed, thread_pc, thread_new, thread_got, saw_unset

valVars   == <<task_data, validated, revalidated, vstep>>
decVars   == <<response, decoded, dstep>>
matchVars == <<task_match, tasks, matched, mstep>>
nlVars    == <<natural_language, reply, pc, task_data_list, idx,
               validated_list, draft, outcome, trace>>
extVars   == <<input_text, extracted, due_calls, estep>>
toolVars  == <<tool, arguments, chat, all_tasks, db_raises, update_info,
               db_calls, tool_reply, hstep, tool_name, tool_args, fail_at>>
dispVars  == <<tool_result, handlers_called, call_raised>>
singVars  == <<getter, handle, constructed, thread_pc, thread_new, thread_got,
               saw_unset>>
procVars  == <<dispVars, singVars>>
restVars  == <<extVars, toolVars, procVars>>
vars      == <<valVars, decVars, matchVars, nlVars, restVars>>

----------------------------------------------------------------------------
(* Bounds of the model.                                                    *)

\* longest token sequence enumerated as a model response by the decoder runs
MaxLen == 5
\* longest tags list enumerated as an input of validate_task_data
MaxTags == 2
\* most stored tasks handed to find_matching_task
MaxTasks == 3
\* most tokens put before, and after, a whole JSON document in a response
MaxPad == 1
\* records in a model batch, words in a natural-language input
MaxBatch == 3
MaxWords == 2
\* words in a text handed to the fallback extractor alone
MaxPhrase == 3

----------------------------------------------------------------------------
(* Python strings.                                                         *)

\* str.lower() on one character
LowerChar(c) ==
    CASE c = "A" -> "a" [] c = "B" -> "b" [] c = "C" -> "c" [] c = "D" -> "d"
      [] c = "E" -> "e" [] c = "F" -> "f" [] c = "G" -> "g" [] c = "H" -> "h"
      [] c = "I" -> "i" [] c = "J" -> "j" [] c = "K" -> "k" [] c = "L" -> "l"
      [] c = "M" -> "m" [] c = "N" -> "n" [] c = "O" -> "o" [] c = "P" -> "p"
      [] c = "Q" -> "q" [] c = "R" -> "r" [] c = "S" -> "s" [] c = "T" -> "t"
      [] c = "U" -> "u" [] c = "V" -> "v" [] c = "W" -> "w" [] c = "X" -> "x"
      [] c = "Y" -> "y" [] c = "Z" -> "z"
      [] OTHER -> c

\* str.upper() on one character
UpperChar(c) ==
    CASE c = "a" -> "A" [] c = "b" -> "B" [] c = "c" -> "C" [] c = "d" -> "D"
      [] c = "e" -> "E" [] c = "f" -> "F" [] c = "g" -> "G" [] c = "h" -> "H"
      [] c = "i" -> "I" [] c = "j" -> "J" [] c = "k" -> "K" [] c = "l" -> "L"
      [] c = "m" -> "M" [] c = "n" -> "N" [] c = "o" -> "O" [] c = "p" -> "P"
      [] c = "q" -> "Q" [] c = "r" -> "R" [] c = "s" -> "S" [] c = "t" -> "T"
      [] c = "u" -> "U" [] c = "v" -> "V" [] c = "w" -> "W" [] c = "x" -> "X"
      [] c = "y" -> "Y" [] c = "z" -> "Z"
      [] OTHER -> c

\* str.lower()
Lower(s) == [i \in 1..Len(s) |-> LowerChar(s[i])]

WhiteSpace == {" ", "\n", "\t"}

\* index of the first non-blank character, Len(s)+1 when there is none
FirstNonBlank(s) ==
    IF \E i \in 1..Len(s) : s[i] \notin WhiteSpace
    THEN CHOOSE i \in 1..Len(s) :
            /\ s[i] \notin WhiteSpace
            /\ \A j \in 1..(i - 1) : s[j] \in WhiteSpace
    ELSE Len(s) + 1

\* index of the last non-blank character, 0 when there is none
LastNonBlank(s) ==
    IF \E i \in 1..Len(s) : s[i] \notin WhiteSpace
    THEN CHOOSE i \in 1..Len(s) :
            /\ s[i] \notin WhiteSpace
            /\ \A j \in (i + 1)..Len(s) : s[j] \in WhiteSpace
    ELSE 0

\* str.strip()
Strip(s) == SubSeq(s, FirstNonBlank(s), LastNonBlank(s))

\* sub in s, for Python strings
Contains(s, sub) ==
    \E i \in 0..(Len(s) - Len(sub)) :
        \A j \in 1..Len(sub) : s[i + j] = sub[j]

\* s.split(sep)[0] for a one-character separator
SplitFirst(s, sep) ==
    IF \E i \in 1..Len(s) : s[i] = sep
    THEN LET i == CHOOSE k \in 1..Len(s) :
                     s[k] = sep /\ \A j \in 1..(k - 1) : s[j] # sep
         IN  SubSeq(s, 1, i - 1)
    ELSE s

----------------------------------------------------------------------------
(* Python values.                                                          *)

EmptyDict == <<>>

StrVal(s)   == [kind |-> "str",  s |-> s,    items |-> <<>>, d |-> EmptyDict]
NumVal(s)   == [kind |-> "num",  s |-> s,    items |-> <<>>, d |-> EmptyDict]
NoneVal     == [kind |-> "null", s |-> <<>>, items |-> <<>>, d |-> EmptyDict]
ListVal(xs) == [kind |-> "list", s |-> <<>>, items |-> xs,   d |-> EmptyDict]
DictVal(f)  == [kind |-> "dict", s |-> <<>>, items |-> <<>>, d |-> f]

\* bool(v)
Truthy(v) ==
    CASE v.kind = "str"  -> v.s # <<>>
      [] v.kind = "num"  -> v.s # <<"0">>
      [] v.kind = "null" -> FALSE
      [] v.kind = "list" -> v.items # <<>>
      [] v.kind = "dict" -> DOMAIN v.d # {}

\* repr(v) of a scalar, as it appears inside str(list)
Repr(v) ==
    CASE v.kind = "str"  -> <<"'">> \o v.s \o <<"'">>
      [] v.kind = "num"  -> v.s
      [] v.kind = "null" -> <<"N", "o", "n", "e">>
      [] OTHER           -> <<"[", "]">>

RECURSIVE ReprItems(_)
ReprItems(xs) ==
    IF xs = <<>> THEN <<>>
    ELSE IF Len(xs) = 1 THEN Repr(xs[1])
    ELSE Repr(xs[1]) \o <<",", " ">> \o ReprItems(Tail(xs))

\* str(v).  The field values of the model's inputs are scalars and lists of
\* scalars; of the dicts only the empty one is rendered.
PyStr(v) ==
    CASE v.kind = "str"  -> v.s
      [] v.kind = "num"  -> v.s
      [] v.kind = "null" -> <<"N", "o", "n", "e">>
      [] v.kind = "list" -> <<"[">> \o ReprItems(v.items) \o <<"]">>
      [] v.kind = "dict" -> <<"{", "}">>

----------------------------------------------------------------------------
(* ai/parsers.py: validate_task_data.                                      *)

TITLE    == <<"t", "i", "t", "l", "e">>
LOW      == <<"l", "o", "w">>
MEDIUM   == <<"m", "e", "d", "i", "u", "m">>
HIGH     == <<"h", "i", "g", "h">>
PENDING  == <<"p", "e", "n", "d", "i", "n", "g">>
IN_PROGRESS == <<"i", "n", "_", "p", "r", "o", "g", "r", "e", "s", "s">>
COMPLETED   == <<"c", "o", "m", "p", "l", "e", "t", "e", "d">>

Priorities == {LOW, MEDIUM, HIGH}
Statuses   == {PENDING, IN_PROGRESS, COMPLETED}

\* the result of a call: a returned value, or the exception it raised
Returned(v) == [ok |-> TRUE,  err |-> "",  val |-> v]
Raised(e)   == [ok |-> FALSE, err |-> e,   val |-> NoneVal]

TitleRequired == "ValueError: Task title is required"

\* 'key' in task_data and task_data['key']
HasTruthy(d, key) == key \in DOMAIN d /\ Truthy(d[key])

\* [str(tag).strip() for tag in tags if tag]
RECURSIVE CleanTags(_)
CleanTags(xs) ==
    IF xs = <<>> THEN <<>>
    ELSE IF Truthy(Head(xs))
         THEN <<StrVal(Strip(PyStr(Head(xs))))>> \o CleanTags(Tail(xs))
         ELSE CleanTags(Tail(xs))

\* a priority kept as it is written, not lower-cased
ValidatedPriority_NoLower(v) ==
    IF PyStr(v) \in Priorities THEN StrVal(PyStr(v)) ELSE StrVal(MEDIUM)

\* priority = str(task_data['priority']).lower(), medium when it is not one
\* of the three
ValidatedPriority(v) ==
    IF Lower(PyStr(v)) \in Priorities THEN StrVal(Lower(PyStr(v))) ELSE StrVal(MEDIUM)

\* a status kept whatever it is
StatusKept_Always(v) == TRUE

\* status = str(task_data['status']).lower(); if status in [...]
StatusKept(v) == Lower(PyStr(v)) \in Statuses

\* a due date kept whole
ValidatedDueDate_Whole(v) == StrVal(PyStr(v))

\* due_date = str(task_data['due_date']), cut before the first '/'
ValidatedDueDate(v) ==
    IF Contains(PyStr(v), <<"/">>)
    THEN StrVal(SplitFirst(PyStr(v), "/"))
    ELSE StrVal(PyStr(v))

\* the keys validate_task_data writes for the dict d
ValidatedKeys(d) ==
    {"title"}
    \cup (IF HasTruthy(d, "description") THEN {"description"} ELSE {})
    \cup (IF "priority" \in DOMAIN d THEN {"priority"} ELSE {})
    \cup (IF "status" \in DOMAIN d /\ StatusKept(d["status"])
          THEN {"status"} ELSE {})
    \cup (IF HasTruthy(d, "category") THEN {"category"} ELSE {})
    \cup (IF HasTruthy(d, "due_date") THEN {"due_date"} ELSE {})
    \cup (IF "tags" \in DOMAIN d /\ d["tags"].kind = "list" THEN {"tags"} ELSE {})

\* the value validate_task_data writes under key k
ValidatedField(d, k) ==
    CASE k = "title"       -> StrVal(Strip(PyStr(d["title"])))
      [] k = "description" -> StrVal(Strip(PyStr(d["description"])))
      [] k = "priority"    -> ValidatedPriority(d["priority"])
      [] k = "status"      -> StrVal(Lower(PyStr(d["status"])))
      [] k = "category"    -> StrVal(Strip(PyStr(d["category"])))
      [] k = "due_date"    -> ValidatedDueDate(d["due_date"])
      [] k = "tags"        -> ListVal(CleanTags(d["tags"].items))

\* the required-field test: 'title' in task_data and task_data['title']
TitleAccepted(d) == HasTruthy(d, "title")

\* a variant: the keys of the input that the validator does not know are
\* copied to the output
validate_task_data_KeepInput(td) ==
    IF td.kind = "dict" /\ TitleAccepted(td.d)
    THEN Returned(DictVal([k \in ValidatedKeys(td.d) \cup DOMAIN td.d |->
                              IF k \in ValidatedKeys(td.d)
                              THEN ValidatedField(td.d, k) ELSE td.d[k]]))
    ELSE Raised(TitleRequired)

\* validate_task_data(task_data).  On a value that is no dict, the test
\* 'title' in task_data is a TypeError (number, None), a substring test
\* (str) or a membership test (list), and task_data['title'] a TypeError.
validate_task_data(td) ==
    CASE td.kind = "dict" ->
            IF TitleAccepted(td.d)
            THEN Returned(DictVal([k \in ValidatedKeys(td.d) |-> ValidatedField(td.d, k)]))
            ELSE Raised(TitleRequired)
      [] td.kind = "str" ->
            IF Contains(td.s, TITLE) THEN Raised("TypeError") ELSE Raised(TitleRequired)
      [] td.kind = "list" ->
            IF \E i \in 1..Len(td.items) : td.items[i] = StrVal(TITLE)
            THEN Raised("TypeError") ELSE Raised(TitleRequired)
      [] OTHER -> Raised("TypeError")

----------------------------------------------------------------------------
(* Model responses.  A response is a sequence of tokens: the characters    *)
(* the decoder searches for ('[', ']', '{', '}' and the fence markers),    *)
(* JSON's comma, a key with its colon, a scalar literal, or a word of      *)
(* prose.  String literals of the model hold no bracket and no backtick.   *)

Punct(p)  == [t |-> "punct", key |-> p,  s |-> <<>>]
KeyTok(k) == [t |-> "key",   key |-> k,  s |-> <<>>]
StrTok(s) == [t |-> "str",   key |-> "", s |-> s]
NumTok(s) == [t |-> "num",   key |-> "", s |-> s]
NullTok   == [t |-> "null",  key |-> "", s |-> <<>>]
WordTok   == [t |-> "word",  key |-> "", s |-> <<>>]

LBracket  == Punct("[")
RBracket  == Punct("]")
LBrace    == Punct("{")
RBrace    == Punct("}")
Comma     == Punct(",")
Fence     == Punct("fence")
FenceJson == Punct("fence_json")

----------------------------------------------------------------------------
(* json.loads on a token sequence (standard library; modelled by JSON's    *)
(* grammar: value, array, object).                                         *)

ParseFail == [ok |-> FALSE, next |-> 0, val |-> NoneVal]
Parsed(v, n) == [ok |-> TRUE, next |-> n, val |-> v]

\* dict with key k set to v (a repeated key keeps the last value)
DictPut(f, k, v) == [x \in (DOMAIN f) \cup {k} |-> IF x = k THEN v ELSE f[x]]

RECURSIVE ParseValue(_, _), ParseElems(_, _, _), ParseMembers(_, _, _)

\* one JSON value starting at token i
ParseValue(t, i) ==
    IF i > Len(t) THEN ParseFail
    ELSE LET tok == t[i]
         IN  CASE tok.t = "str"  -> Parsed(StrVal(tok.s), i + 1)
               [] tok.t = "num"  -> Parsed(NumVal(tok.s), i + 1)
               [] tok.t = "null" -> Parsed(NoneVal, i + 1)
               [] tok = LBracket ->
                    IF i + 1 <= Len(t) /\ t[i + 1] = RBracket
                    THEN Parsed(ListVal(<<>>), i + 2)
                    ELSE ParseElems(t, i + 1, <<>>)
               [] tok = LBrace ->
                    IF i + 1 <= Len(t) /\ t[i + 1] = RBrace
                    THEN Parsed(DictVal(EmptyDict), i + 2)
                    ELSE ParseMembers(t, i + 1, EmptyDict)
               [] OTHER -> ParseFail

\* the elements of an array from token i on, acc being those read so far
ParseElems(t, i, acc) ==
    LET v == ParseValue(t, i)
    IN  IF ~v.ok \/ v.next > Len(t) THEN ParseFail
        ELSE IF t[v.next] = Comma THEN ParseElems(t, v.next + 1, Append(acc, v.val))
        ELSE IF t[v.next] = RBracket THEN Parsed(ListVal(Append(acc, v.val)), v.next + 1)
        ELSE ParseFail

\* the members of an object from token i on, acc being those read so far
ParseMembers(t, i, acc) ==
    IF i + 1 > Len(t) \/ t[i].t # "key" THEN ParseFail
    ELSE LET v == ParseValue(t, i + 1)
         IN  IF ~v.ok \/ v.next > Len(t) THEN ParseFail
             ELSE IF t[v.next] = Comma
                  THEN ParseMembers(t, v.next + 1, DictPut(acc, t[i].key, v.val))
             ELSE IF t[v.next] = RBrace
                  THEN Parsed(DictVal(DictPut(acc, t[i].key, v.val)), v.next + 1)
             ELSE ParseFail

JSONDecodeError == "JSONDecodeError"

\* json.loads(text): the whole text is one JSON value
json_loads(t) ==
    LET v == ParseValue(t, 1)
    IN  IF v.ok /\ v.next = Len(t) + 1 THEN Returned(v.val) ELSE Raised(JSONDecodeError)

----------------------------------------------------------------------------
(* ai/groq_client.py: the decoder of GroqClient.parse_task_from_nl.        *)

\* content.find(tok): the first index of tok, 0 when absent
Find(t, tok) ==
    IF \E i \in 1..Len(t) : t[i] = tok
    THEN CHOOSE i \in 1..Len(t) : t[i] = tok /\ \A j \in 1..(i - 1) : t[j] # tok
    ELSE 0

\* a variant: rfind taken for find: the first index instead of the last
RFind_First(t, tok) == Find(t, tok)

\* content.rfind(tok): the last index of tok, 0 when absent
RFind(t, tok) ==
    IF \E i \in 1..Len(t) : t[i] = tok
    THEN CHOOSE i \in 1..Len(t) : t[i] = tok /\ \A j \in (i + 1)..Len(t) : t[j] # tok
    ELSE 0

\* the first index from position from on of a token of the set, Len+1 when none
FindFrom(t, toks, from) ==
    IF \E i \in from..Len(t) : t[i] \in toks
    THEN CHOOSE i \in from..Len(t) : t[i] \in toks /\ \A j \in from..(i - 1) : t[j] \notin toks
    ELSE Len(t) + 1

\* content.split(FENCE_JSON)[1].split(FENCE)[0], FENCE being the three
\* backticks of a fenced block and FENCE_JSON those followed by json: what
\* follows the first FENCE_JSON up to the next fence marker of either kind
AfterJsonFence(t) ==
    LET open  == Find(t, FenceJson)
        close == FindFrom(t, {Fence, FenceJson}, open + 1)
    IN  SubSeq(t, open + 1, close - 1)

\* content.split(FENCE)[1].split(FENCE)[0], when FENCE_JSON is absent: what
\* lies between the first and the second fence marker
AfterFence(t) ==
    LET open  == Find(t, Fence)
        close == FindFrom(t, {Fence}, open + 1)
    IN  SubSeq(t, open + 1, close - 1)

\* the fenced block of the response, or the response itself
StripFence(t) ==
    IF Find(t, FenceJson) # 0 THEN AfterJsonFence(t)
    ELSE IF Find(t, Fence) # 0 THEN AfterFence(t)
    ELSE t

\* bracket_start != -1 and bracket_end != -1 and bracket_end > bracket_start
HasSpan(start, end) == start # 0 /\ end # 0 /\ end > start

\* a variant: the array span tried only when the text holds no brace
ArrayFirst_OnlyWithoutBrace(bracket_start, brace_start) == brace_start = 0

\* brace_start == -1 or bracket_start < brace_start
ArrayFirst(bracket_start, brace_start) ==
    brace_start = 0 \/ bracket_start < brace_start

\* the except-branch of the direct parse: the greedy span search
SpanSearch(content) ==
    LET bracket_start == Find(content, LBracket)
        bracket_end   == RFind(content, RBracket)
        brace_start   == Find(content, LBrace)
        brace_end     == RFind(content, RBrace)
        array == IF HasSpan(bracket_start, bracket_end)
                    /\ ArrayFirst(bracket_start, brace_start)
                 THEN json_loads(SubSeq(content, bracket_start, bracket_end))
                 ELSE Raised("unset")
    IN  IF array.ok THEN array
        ELSE IF HasSpan(brace_start, brace_end)
             THEN json_loads(SubSeq(content, brace_start, brace_end))
             ELSE Raised("ValueError: No JSON structure found in response")

InvalidJson == "ValueError: Invalid JSON response from LLM"

\* "Normalize to list"
Normalize(data) ==
    CASE data.kind = "dict" -> Returned(ListVal(<<data>>))
      [] data.kind = "list" -> Returned(data)
      [] OTHER -> Raised("ValueError: Parsed data is neither dict nor list")

\* the decoding step of parse_task_from_nl on the model's response
Decode(resp) ==
    LET content == StripFence(resp)
        direct  == json_loads(content)
        data    == IF direct.ok THEN direct ELSE SpanSearch(content)
        result  == IF data.ok THEN Normalize(data.val) ELSE data
    IN  IF result.ok THEN result ELSE Raised(InvalidJson)


----------------------------------------------------------------------------
(* Inputs.                                                                 *)

\* a key that the input dict does not hold
Absent == [kind |-> "absent", s |-> <<>>, items |-> <<>>, d |-> EmptyDict]

TitleInputs == {Absent, NoneVal, NumVal(<<"0">>), StrVal(<<>>), StrVal(<<" ">>),
                StrVal(<<" ", "a", " ">>)}
DescriptionInputs == {Absent, StrVal(<<" ">>), StrVal(<<"d", " ">>)}
PriorityInputs == {Absent, NoneVal, StrVal(<<"H", "I", "G", "H">>), StrVal(LOW),
                   StrVal(<<"h", "i", "g", "h", " ">>)}
StatusInputs == {Absent, StrVal(<<"d", "o", "n", "e">>),
                 StrVal(<<"P", "e", "n", "d", "i", "n", "g">>)}
CategoryInputs == {Absent, StrVal(<<" ">>), StrVal(<<" ", "c">>)}
DueDateInputs == {Absent, StrVal(<<"d">>), StrVal(<<"d", "/", "e">>),
                  StrVal(<<"/", "e">>)}
TagInputs == {StrVal(<<" ">>), StrVal(<<"t", " ">>), NumVal(<<"0">>)}
IdInputs == {Absent, NumVal(<<"7">>)}

\* the sequences over S of length at most n
SeqsUpTo(S, n) == UNION {[1..k -> S] : k \in 0..n}

TagsInputs == {Absent, StrVal(<<"t">>)} \cup {ListVal(xs) : xs \in SeqsUpTo(TagInputs, MaxTags)}

\* the dict holding the given fields, the absent ones left out
MakeTask(title, description, priority, status, category, due_date, tags_, id) ==
    LET all == [title |-> title, description |-> description, priority |-> priority,
                status |-> status, category |-> category, due_date |-> due_date,
                tags |-> tags_, id |-> id]
    IN  DictVal([k \in {x \in DOMAIN all : all[x] # Absent} |-> all[k]])

NotCalled == Raised("not called")

----------------------------------------------------------------------------
(* validate_task_data applied to an input, and then to its own output.     *)

ValOff == /\ task_data = NoneVal /\ validated = NotCalled
          /\ revalidated = NotCalled /\ vstep = "off"
DecOff == response = <<>> /\ decoded = NotCalled /\ dstep = "off"
MatchOff == task_match = <<>> /\ tasks = <<>> /\ matched = NotCalled /\ mstep = "off"
\* what the model API does when it is called: it fails, or it replies a text
TransportError == [fails |-> TRUE, text |-> <<>>]
Replied(text) == [fails |-> FALSE, text |-> text]

NlOff == /\ natural_language = <<>> /\ reply = TransportError /\ pc = "off"
         /\ task_data_list = <<>> /\ idx = 0 /\ validated_list = <<>>
         /\ draft = NoneVal /\ outcome = NotCalled /\ trace = <<>>

\* what a handler answers: the kind of answer, the HTTP status of an API
\* route (0 for an MCP tool), the error text, the task shown, the tasks
\* listed and the number of matches reported
Reply(kind, code, detail, task, shown, count) ==
    [kind |-> kind, code |-> code, detail |-> detail, task |-> task,
     shown |-> shown, count |-> count]

\* no reply yet: the handler has not answered
NoResult == Reply("none", 0, "", NoneVal, <<>>, 0)

ExtOff == /\ input_text = <<>> /\ extracted = NoneVal /\ due_calls = <<>>
          /\ estep = "off"
ToolOff == /\ tool = "off" /\ arguments = <<>> /\ chat = TransportError
           /\ all_tasks = <<>> /\ db_raises = "none" /\ db_calls = <<>>
           /\ update_info = NotCalled
           /\ tool_reply = NoResult /\ hstep = "off"
           /\ tool_name = "" /\ tool_args = NoneVal /\ fail_at = 0
DispOff == tool_result = <<>> /\ handlers_called = <<>> /\ call_raised = ""
SingOff == /\ getter = "off" /\ handle = <<>> /\ constructed = <<>>
           /\ thread_pc = <<>> /\ thread_new = <<>> /\ thread_got = <<>>
           /\ saw_unset = <<>>
ProcOff == DispOff /\ SingOff
RestOff == ExtOff /\ ToolOff /\ ProcOff

InitValidate ==
    /\ \/ \E title \in TitleInputs, description \in DescriptionInputs,
            priority \in PriorityInputs, status \in StatusInputs,
            category \in CategoryInputs, due_date \in DueDateInputs,
            tags_ \in TagsInputs, id \in IdInputs :
            task_data = MakeTask(title, description, priority, status, category,
                                 due_date, tags_, id)
       \/ task_data \in {NoneVal, NumVal(<<"7">>), StrVal(TITLE), StrVal(<<"a">>),
                         ListVal(<<StrVal(TITLE)>>), ListVal(<<>>)}
    /\ validated = NotCalled
    /\ revalidated = NotCalled
    /\ vstep = "input"
    /\ DecOff /\ MatchOff /\ NlOff /\ RestOff

\* validated = validate_task_data(task_data)
Validate ==
    /\ vstep = "input"
    /\ validated' = validate_task_data(task_data)
    /\ vstep' = "validated"
    /\ UNCHANGED <<task_data, revalidated, decVars, matchVars, nlVars, restVars>>

\* revalidated = validate_task_data(validated), when the first call returned
Revalidate ==
    /\ vstep = "validated"
    /\ validated.ok
    /\ revalidated' = validate_task_data(validated.val)
    /\ vstep' = "revalidated"
    /\ UNCHANGED <<task_data, validated, decVars, matchVars, nlVars, restVars>>

NextValidate == Validate \/ Revalidate

SpecValidate == InitValidate /\ [][NextValidate]_vars

----------------------------------------------------------------------------
(* The decoder applied to a model response.                                *)

DecodeAlphabet == {LBracket, RBracket, LBrace, RBrace, Comma, KeyTok("title"),
                   StrTok(<<"a">>), WordTok, Fence, FenceJson}

\* whole JSON documents: two records, an object holding an array, an array
\* of a scalar and an object
Documents ==
    {<<LBracket, LBrace, KeyTok("title"), StrTok(<<"a">>), RBrace, Comma,
       LBrace, KeyTok("title"), StrTok(<<"b">>), RBrace, RBracket>>,
     <<LBrace, KeyTok("tags"), LBracket, StrTok(<<"a">>), RBracket, RBrace>>,
     <<LBracket, StrTok(<<"a">>), Comma, LBrace, RBrace, RBracket>>}

\* the responses: every short token sequence, and every document with a few
\* tokens before and after it
Responses ==
    SeqsUpTo(DecodeAlphabet, MaxLen)
    \cup {pre \o doc \o post : pre \in SeqsUpTo(DecodeAlphabet, MaxPad),
                               post \in SeqsUpTo(DecodeAlphabet, MaxPad),
                               doc \in Documents}

InitDecode ==
    /\ response \in Responses
    /\ decoded = NotCalled
    /\ dstep = "input"
    /\ ValOff /\ MatchOff /\ NlOff /\ RestOff

\* decoded = the decoding step of parse_task_from_nl on response
DecodeResponse ==
    /\ dstep = "input"
    /\ decoded' = Decode(response)
    /\ dstep' = "decoded"
    /\ UNCHANGED <<response, valVars, matchVars, nlVars, restVars>>

NextDecode == DecodeResponse

SpecDecode == InitDecode /\ [][NextDecode]_vars


----------------------------------------------------------------------------
(* ai/agent.py: TaskAgent.find_matching_task.                              *)

\* a variant: the title compared as written, not lower-cased
TitleLower_AsIs(task) ==
    IF "title" \in DOMAIN task.d THEN task.d["title"].s ELSE <<>>

\* task.get('title', '').lower()
TitleLower(task) ==
    Lower(IF "title" \in DOMAIN task.d THEN task.d["title"].s ELSE <<>>)

\* the loop collecting in matches the tasks whose title holds the keyword
RECURSIVE MatchesOf(_, _)
MatchesOf(task_match_lower, ts) ==
    IF ts = <<>> THEN <<>>
    ELSE (IF Contains(TitleLower(Head(ts)), task_match_lower)
          THEN <<Head(ts)>> ELSE <<>>)
         \o MatchesOf(task_match_lower, Tail(ts))

\* find_matching_task(task_match, tasks): the id, or None
find_matching_task(tm, ts) ==
    LET matches == MatchesOf(Lower(tm), ts)
    IN  IF Len(matches) = 1 THEN Returned(matches[1].d["id"])
        ELSE IF Len(matches) > 1 THEN Returned(NoneVal)
        ELSE Returned(NoneVal)

MatchTitles == {Absent, StrVal(<<"M", "i", "l", "k">>),
                StrVal(<<"o", "a", "t", " ", "m", "i", "l", "k">>),
                StrVal(<<"t", "e", "a">>)}
MatchKeywords == {<<>>, <<"m", "i", "l", "k">>, <<"M", "I", "L", "K">>,
                  <<"o", "a", "t">>, <<"T", "e">>, <<"x">>}

TaskIds == <<"1", "2", "3", "4", "5", "6", "7">>

\* the stored task at position i with the given title
StoredTask(title, i) ==
    IF title = Absent THEN DictVal([k \in {"id"} |-> StrVal(<<TaskIds[i]>>)])
    ELSE DictVal([k \in {"id", "title"} |->
                    IF k = "id" THEN StrVal(<<TaskIds[i]>>) ELSE title])

InitMatch ==
    /\ task_match \in MatchKeywords
    /\ \E titles \in SeqsUpTo(MatchTitles, MaxTasks) :
          tasks = [i \in 1..Len(titles) |-> StoredTask(titles[i], i)]
    /\ matched = NotCalled
    /\ mstep = "input"
    /\ ValOff /\ DecOff /\ NlOff /\ RestOff

\* matched = find_matching_task(task_match, tasks)
FindMatch ==
    /\ mstep = "input"
    /\ matched' = find_matching_task(task_match, tasks)
    /\ mstep' = "done"
    /\ UNCHANGED <<task_match, tasks, valVars, decVars, nlVars, restVars>>

NextMatch == FindMatch

SpecMatch == InitMatch /\ [][NextMatch]_vars

----------------------------------------------------------------------------
(* ai/parsers.py: the keyword extractors of the fallback parser.           *)

\* some keyword of the sequence occurs in the text
AnyKeyword(text_lower, keywords) ==
    \E k \in 1..Len(keywords) : Contains(text_lower, keywords[k])

high_keywords == <<
     <<"u", "r", "g", "e", "n", "t">>, <<"a", "s", "a", "p">>,
     <<"c", "r", "i", "t", "i", "c", "a", "l">>,
     <<"i", "m", "p", "o", "r", "t", "a", "n", "t">>,
     <<"e", "m", "e", "r", "g", "e", "n", "c", "y">>,
     <<"h", "i", "g", "h", " ", "p", "r", "i", "o", "r", "i", "t", "y">>,
     <<"c", "r", "u", "c", "i", "a", "l">>, <<"v", "i", "t", "a", "l">>,
     <<"p", "r", "e", "s", "s", "i", "n", "g">> >>

low_keywords == <<
     <<"l", "o", "w", " ", "p", "r", "i", "o", "r", "i", "t", "y">>,
     <<"w", "h", "e", "n", "e", "v", "e", "r">>,
     <<"s", "o", "m", "e", "d", "a", "y">>, <<"m", "a", "y", "b", "e">>,
     <<"n", "o", "t", " ", "u", "r", "g", "e", "n", "t">>, <<"l", "o", "w">>,
     <<"m", "i", "n", "o", "r">> >>

\* the low-priority keywords looked for first
extract_priority_LowFirst(text) ==
    IF AnyKeyword(Lower(text), low_keywords) THEN LOW
    ELSE IF AnyKeyword(Lower(text), high_keywords) THEN HIGH
    ELSE MEDIUM

\* extract_priority(text)
extract_priority(text) ==
    LET text_lower == Lower(text)
    IN  IF AnyKeyword(text_lower, high_keywords) THEN HIGH
        ELSE IF AnyKeyword(text_lower, low_keywords) THEN LOW
        ELSE MEDIUM

\* the category keywords, in the order the dict declares them
categories == <<
    [name |-> <<"w", "o", "r", "k">>,
     keywords |-> <<
       <<"w", "o", "r", "k">>, <<"m", "e", "e", "t", "i", "n", "g">>,
       <<"p", "r", "o", "j", "e", "c", "t">>,
       <<"d", "e", "a", "d", "l", "i", "n", "e">>,
       <<"p", "r", "e", "s", "e", "n", "t", "a", "t", "i", "o", "n">>,
       <<"r", "e", "p", "o", "r", "t">>, <<"e", "m", "a", "i", "l">> >>],
    [name |-> <<"p", "e", "r", "s", "o", "n", "a", "l">>,
     keywords |-> <<
       <<"p", "e", "r", "s", "o", "n", "a", "l">>, <<"s", "e", "l", "f">>,
       <<"h", "e", "a", "l", "t", "h">>,
       <<"e", "x", "e", "r", "c", "i", "s", "e">>,
       <<"d", "o", "c", "t", "o", "r">>,
       <<"a", "p", "p", "o", "i", "n", "t", "m", "e", "n", "t">> >>],
    [name |-> <<"s", "h", "o", "p", "p", "i", "n", "g">>,
     keywords |-> <<
       <<"b", "u", "y">>, <<"p", "u", "r", "c", "h", "a", "s", "e">>,
       <<"s", "h", "o", "p">>,
       <<"g", "r", "o", "c", "e", "r", "i", "e", "s">>,
       <<"s", "t", "o", "r", "e">>, <<"o", "r", "d", "e", "r">> >>],
    [name |-> <<"h", "o", "m", "e">>,
     keywords |-> <<
       <<"h", "o", "m", "e">>, <<"h", "o", "u", "s", "e">>,
       <<"c", "l", "e", "a", "n">>, <<"r", "e", "p", "a", "i", "r">>,
       <<"f", "i", "x">>,
       <<"m", "a", "i", "n", "t", "e", "n", "a", "n", "c", "e">> >>],
    [name |-> <<"f", "i", "n", "a", "n", "c", "e">>,
     keywords |-> <<
       <<"p", "a", "y">>, <<"b", "i", "l", "l">>, <<"b", "a", "n", "k">>,
       <<"m", "o", "n", "e", "y">>, <<"b", "u", "d", "g", "e", "t">>,
       <<"i", "n", "v", "o", "i", "c", "e">> >>],
    [name |-> <<"l", "e", "a", "r", "n", "i", "n", "g">>,
     keywords |-> <<
       <<"l", "e", "a", "r", "n">>, <<"s", "t", "u", "d", "y">>,
       <<"r", "e", "a", "d">>, <<"c", "o", "u", "r", "s", "e">>,
       <<"t", "u", "t", "o", "r", "i", "a", "l">>,
       <<"p", "r", "a", "c", "t", "i", "c", "e">> >>],
    [name |-> <<"s", "o", "c", "i", "a", "l">>,
     keywords |-> <<
       <<"c", "a", "l", "l">>, <<"m", "e", "e", "t">>,
       <<"v", "i", "s", "i", "t">>, <<"p", "a", "r", "t", "y">>,
       <<"e", "v", "e", "n", "t">>, <<"f", "r", "i", "e", "n", "d">>,
       <<"f", "a", "m", "i", "l", "y">> >>] >>

\* the category whose keyword stands first in the text
infer_category_FirstInText(text) ==
    LET text_lower == Lower(text)
        at(c) == {i \in 0..Len(text_lower) :
                    \E k \in 1..Len(categories[c].keywords) :
                        LET kw == categories[c].keywords[k]
                        IN  /\ i + Len(kw) <= Len(text_lower)
                            /\ SubSeq(text_lower, i + 1, i + Len(kw)) = kw}
        hits == {c \in 1..Len(categories) : at(c) # {}}
    IN  IF hits = {} THEN NoneVal
        ELSE StrVal(categories[CHOOSE c \in hits :
                        \A h \in hits : \E i \in at(c) : \A j \in at(h) :
                            i < j \/ (i = j /\ c <= h)].name)

\* infer_category(text): the first category with a keyword in the text, or None
infer_category(text) ==
    LET text_lower == Lower(text)
        hits == {c \in 1..Len(categories) : AnyKeyword(text_lower, categories[c].keywords)}
    IN  IF hits = {} THEN NoneVal
        ELSE StrVal(categories[CHOOSE c \in hits : \A h \in hits : c <= h].name)

\* the tag keywords, in the order the dict declares them
tag_keywords == <<
    [name |-> <<"u", "r", "g", "e", "n", "t">>,
     keywords |-> <<
       <<"u", "r", "g", "e", "n", "t">>, <<"a", "s", "a", "p">>,
       <<"e", "m", "e", "r", "g", "e", "n", "c", "y">> >>],
    [name |-> <<"i", "m", "p", "o", "r", "t", "a", "n", "t">>,
     keywords |-> <<
       <<"i", "m", "p", "o", "r", "t", "a", "n", "t">>,
       <<"c", "r", "i", "t", "i", "c", "a", "l">>,
       <<"c", "r", "u", "c", "i", "a", "l">> >>],
    [name |-> <<"r", "e", "c", "u", "r", "r", "i", "n", "g">>,
     keywords |-> <<
       <<"d", "a", "i", "l", "y">>, <<"w", "e", "e", "k", "l", "y">>,
       <<"m", "o", "n", "t", "h", "l", "y">>,
       <<"r", "e", "c", "u", "r", "r", "i", "n", "g">> >>],
    [name |-> <<"q", "u", "i", "c", "k">>,
     keywords |-> <<
       <<"q", "u", "i", "c", "k">>, <<"f", "a", "s", "t">>,
       <<"b", "r", "i", "e", "f">>,
       <<"5", " ", "m", "i", "n", "u", "t", "e", "s">>,
       <<"1", "0", " ", "m", "i", "n", "u", "t", "e", "s">> >>],
    [name |-> <<"l", "o", "n", "g">>,
     keywords |-> <<
       <<"l", "o", "n", "g">>, <<"e", "x", "t", "e", "n", "d", "e", "d">>,
       <<"l", "e", "n", "g", "t", "h", "y">> >>] >>

\* the tags of tag_keywords from position k on that have a keyword in the text
RECURSIVE TagsFrom(_, _)
TagsFrom(text_lower, k) ==
    IF k > Len(tag_keywords) THEN <<>>
    ELSE (IF AnyKeyword(text_lower, tag_keywords[k].keywords)
          THEN <<StrVal(tag_keywords[k].name)>> ELSE <<>>)
         \o TagsFrom(text_lower, k + 1)

\* extract_tags(text)
extract_tags(text) == ListVal(TagsFrom(Lower(text), 1))

----------------------------------------------------------------------------
(* Regular expressions of ai/parsers.py, all matched with re.IGNORECASE.   *)
(* An offset p lies between the characters p and p+1 of the text.          *)

Letters == {"a", "b", "c", "d", "e", "f", "g", "h", "i", "j", "k", "l", "m",
            "n", "o", "p", "q", "r", "s", "t", "u", "v", "w", "x", "y", "z"}
Digits  == {"0", "1", "2", "3", "4", "5", "6", "7", "8", "9"}

\* \w
IsWordChar(c) == LowerChar(c) \in Letters \/ c \in Digits \/ c = "_"

\* the character after offset p - 1, "" outside the text
CharAt(t, p) == IF p >= 1 /\ p <= Len(t) THEN t[p] ELSE ""

\* \b at offset p
WordBoundary(t, p) == IsWordChar(CharAt(t, p)) # IsWordChar(CharAt(t, p + 1))

\* the literal (in lower case) stands at offset p
LiteralAt(t, p, lit) ==
    /\ p + Len(lit) <= Len(t)
    /\ \A j \in 1..Len(lit) : LowerChar(t[p + j]) = lit[j]

\* the offset after the longest run of characters of S from offset p on
RunEnd(t, p, S) ==
    IF \E q \in (p + 1)..Len(t) : t[q] \notin S
    THEN (CHOOSE q \in (p + 1)..Len(t) :
             t[q] \notin S /\ \A r \in (p + 1)..(q - 1) : t[r] \in S) - 1
    ELSE IF p > Len(t) THEN p ELSE Len(t)

NoMatch == -1

\* (lit1|lit2|...) at offset p, followed by \b when bounded: the end offset
\* of the first alternative that matches
AlternativesEnd(t, p, lits, bounded) ==
    LET ok == {k \in 1..Len(lits) :
                  /\ LiteralAt(t, p, lits[k])
                  /\ (bounded => WordBoundary(t, p + Len(lits[k])))}
    IN  IF ok = {} THEN NoMatch
        ELSE p + Len(lits[CHOOSE k \in ok : \A h \in ok : k <= h])

DayWords == << <<"t", "o", "m", "o", "r", "r", "o", "w">>, <<"t", "o", "d", "a", "y">>,
               <<"t", "o", "n", "i", "g", "h", "t">> >>
MarkerWords == << <<"u", "r", "g", "e", "n", "t">>, <<"a", "s", "a", "p">>,
                  <<"h", "i", "g", "h", " ", "p", "r", "i", "o", "r", "i", "t", "y">>,
                  <<"l", "o", "w", " ", "p", "r", "i", "o", "r", "i", "t", "y">> >>
AmPm == << <<"a", "m">>, <<"p", "m">> >>

\* \d{n} at offset p
DigitsAt(t, p, n) == p + n <= Len(t) /\ \A j \in 1..n : t[p + j] \in Digits

\* (:\d{2})? at offset p: the end offset with the group when it matches
ColonGroupEnd(t, p) ==
    IF CharAt(t, p + 1) = ":" /\ DigitsAt(t, p + 1, 2) THEN p + 3 ELSE NoMatch

\* a|b of the regex engine: the first attempt that matches
FirstMatch(a, b) == IF a # NoMatch THEN a ELSE b

\* (am|pm)?\b at offset w, the greedy end of \s* from q: with am or pm, else
\* without, else backing off to no white space at all
ClockTailPick(t, q, w) ==
    FirstMatch(AlternativesEnd(t, w, AmPm, TRUE),
               IF WordBoundary(t, w) THEN w ELSE IF w > q THEN q ELSE NoMatch)

\* \s*(am|pm)?\b at offset q, q following a digit
ClockTailEnd(t, q) == ClockTailPick(t, q, RunEnd(t, q, WhiteSpace))

\* (am|pm)? at offset w, with no \b after it
ClockTailPickUnbounded(t, w) == FirstMatch(AlternativesEnd(t, w, AmPm, FALSE), w)

\* \s*(am|pm)? at offset q, with no \b after it
ClockTailEndUnbounded(t, q) == ClockTailPickUnbounded(t, RunEnd(t, q, WhiteSpace))

\* the tail of the clock pattern at offset q, no match when q is none
ClockTail(t, q, bounded) ==
    IF q = NoMatch THEN NoMatch
    ELSE IF bounded THEN ClockTailEnd(t, q) ELSE ClockTailEndUnbounded(t, q)

\* \d{n}(:\d{2})? at offset p followed by the tail: the colon group is tried
\* before its absence
ClockTry(t, p, n, bounded) ==
    IF ~DigitsAt(t, p, n) THEN NoMatch
    ELSE FirstMatch(ClockTail(t, ColonGroupEnd(t, p + n), bounded),
                    ClockTail(t, p + n, bounded))

\* \d{1,2}(:\d{2})? at offset p followed by the tail: two digits are tried
\* before one
ClockEnd(t, p, bounded) ==
    FirstMatch(ClockTry(t, p, 2, bounded), ClockTry(t, p, 1, bounded))

\* at\s+ and the clock time, at offset p
AtClockEnd(t, p, bounded) ==
    LET ws == RunEnd(t, p + 2, WhiteSpace)
    IN  IF LiteralAt(t, p, <<"a", "t">>) /\ ws > p + 2
        THEN ClockEnd(t, ws, bounded) ELSE NoMatch

\* word\s+\w+ at offset p
WordThenWordEnd(t, p, word) ==
    LET ws == RunEnd(t, p + Len(word), WhiteSpace)
        we == RunEnd(t, ws, {c \in {t[i] : i \in 1..Len(t)} : IsWordChar(c)})
    IN  IF LiteralAt(t, p, word) /\ ws > p + Len(word) /\ we > ws
        THEN we ELSE NoMatch

\* time_patterns[k] of clean_title matched at offset p: the end offset
TimePatternEnd(k, t, p) ==
    IF ~WordBoundary(t, p) THEN NoMatch
    ELSE CASE k = 1 -> AlternativesEnd(t, p, DayWords, TRUE)
           [] k = 2 -> AtClockEnd(t, p, TRUE)
           [] k = 3 -> WordThenWordEnd(t, p, <<"b", "y">>)
           [] k = 4 -> AlternativesEnd(t, p, MarkerWords, TRUE)

\* re.sub(time_patterns[k], '', t) from offset p on
RECURSIVE SubFrom(_, _, _)
SubFrom(k, t, p) ==
    IF p >= Len(t) THEN <<>>
    ELSE IF TimePatternEnd(k, t, p) # NoMatch THEN SubFrom(k, t, TimePatternEnd(k, t, p))
    ELSE <<t[p + 1]>> \o SubFrom(k, t, p + 1)

\* ' '.join(cleaned.split()) from position i on
RECURSIVE JoinSplitFrom(_, _)
JoinSplitFrom(t, i) ==
    IF i > Len(t) THEN <<>>
    ELSE IF t[i] \notin WhiteSpace THEN <<t[i]>> \o JoinSplitFrom(t, i + 1)
    ELSE IF /\ i > 1 /\ t[i - 1] \notin WhiteSpace
            /\ \E j \in (i + 1)..Len(t) : t[j] \notin WhiteSpace
         THEN <<" ">> \o JoinSplitFrom(t, i + 1)
    ELSE JoinSplitFrom(t, i + 1)

JoinSplit(t) == JoinSplitFrom(t, 1)

\* cleaned[0].upper() + cleaned[1:]
Capitalize(t) == IF t = <<>> THEN t ELSE <<UpperChar(t[1])>> \o Tail(t)

\* clean_title(text)
clean_title(text) ==
    LET cleaned == SubFrom(4, SubFrom(3, SubFrom(2, SubFrom(1, text, 0), 0), 0), 0)
    IN  Strip(Capitalize(JoinSplit(cleaned)))


----------------------------------------------------------------------------
(* ai/parsers.py: parse_datetime and parse_task_metadata.                  *)

\* due_date_patterns[k] matched at offset p: the end offset
DuePatternEnd(k, t, p) ==
    CASE k = 1 -> AlternativesEnd(t, p, DayWords, FALSE)
      [] k = 2 -> AtClockEnd(t, p, FALSE)
      [] k = 3 -> WordThenWordEnd(t, p, <<"b", "y">>)
      [] k = 4 -> WordThenWordEnd(t, p, <<"o", "n">>)
      [] k = 5 -> WordThenWordEnd(t, p, <<"n", "e", "x", "t">>)

DuePatterns == 1..5

\* re.search(due_date_patterns[k], text, re.IGNORECASE) finds a match
DueMatches(k, t) == \E p \in 0..(Len(t) - 1) : DuePatternEnd(k, t, p) # NoMatch

\* match.group(0) of that search: the leftmost match
DuePhrase(k, t) ==
    LET p == CHOOSE q \in 0..(Len(t) - 1) :
                /\ DuePatternEnd(k, t, q) # NoMatch
                /\ \A r \in 0..(q - 1) : DuePatternEnd(k, t, r) = NoMatch
    IN  SubSeq(t, p + 1, DuePatternEnd(k, t, p))

\* parsed_date.isoformat() of the date that dateparser resolves the phrase
\* of pattern k to (dateparser is a library: the date is not computed here)
IsoFormat(k) == <<"2", "0", "2", "6", "-", "1", "1", "-", "0", TaskIds[k]>>

\* parse_datetime(match.group(0)), resolvable being the patterns whose phrase
\* dateparser resolves
parse_datetime(k, resolvable) ==
    IF k \in resolvable THEN StrVal(IsoFormat(k)) ELSE NoneVal

\* a variant: the loop stops at the first pattern that matches
DueStops_OnMatch(due_date) == TRUE

\* if due_date: ... break
DueStops(due_date) == Truthy(due_date)

\* the loop over due_date_patterns from pattern k on: the due date it ends
\* with (None when it ran out of patterns) and the calls of parse_datetime
\* it made, each with the pattern whose phrase it passed and the value
\* returned
RECURSIVE DueLoop(_, _, _, _)
DueLoop(k, text, resolvable, calls) ==
    IF k \notin DuePatterns THEN [due |-> NoneVal, calls |-> calls]
    ELSE IF ~DueMatches(k, text) THEN DueLoop(k + 1, text, resolvable, calls)
    ELSE IF DueStops(parse_datetime(k, resolvable))
    THEN [due   |-> parse_datetime(k, resolvable),
          calls |-> Append(calls, [pattern |-> k,
                                   value |-> parse_datetime(k, resolvable)])]
    ELSE DueLoop(k + 1, text, resolvable,
                 Append(calls, [pattern |-> k,
                                value |-> parse_datetime(k, resolvable)]))

\* metadata['due_date'] = due_date, when the loop ended with one
WithDueDate(metadata, due) ==
    IF ~Truthy(due) THEN DictVal(metadata)
    ELSE DictVal([key \in DOMAIN metadata \cup {"due_date"} |->
                    IF key = "due_date" THEN due ELSE metadata[key]])

\* parse_task_metadata(text)
parse_task_metadata(text, resolvable) ==
    WithDueDate([title    |-> StrVal(clean_title(text)),
                 priority |-> StrVal(extract_priority(text)),
                 category |-> infer_category(text),
                 tags     |-> extract_tags(text)],
                DueLoop(1, text, resolvable, <<>>).due)


----------------------------------------------------------------------------
(* ai/agent.py: TaskAgent.parse_task_nl, one step per call it makes.       *)

APIError == "APIError"
NoValidTasks == "ValueError: No valid tasks found in parsed output"

\* self.groq_client.parse_task_from_nl(natural_language): chat_completion
\* re-raises the API's error, the decoder works on the text it returns
parse_task_from_nl(r) == IF r.fails THEN Raised(APIError) ELSE Decode(r.text)

\* a loop body that puts the validated record first
AppendValidated_Prepend(list, result) ==
    IF result.ok THEN <<result.val>> \o list ELSE list

\* the body of the loop: the validated record is appended, the error of an
\* invalid one is logged and the record skipped
AppendValidated(list, result) == IF result.ok THEN Append(list, result.val) ELSE list

\* a handler that catches ValueError alone
CaughtByFallback_ValueError(err) == err \in {InvalidJson, NoValidTasks}

\* except Exception as e: the errors that the outer handler catches
CaughtByFallback(err) == TRUE

\* a loop that never raises
EmptyBatchRaises_Never(list) == FALSE

\* a loop that always raises
EmptyBatchRaises_Always(list) == TRUE

\* if not validated_list: raise ValueError
EmptyBatchRaises(list) == list = <<>>

\* the records a model may put in its batch: two valid ones, a mapping
\* without title, a number
Records ==
    {<<LBrace, KeyTok("title"), StrTok(<<"a">>), RBrace>>,
     <<LBrace, KeyTok("title"), StrTok(<<"b">>), Comma,
       KeyTok("priority"), StrTok(<<"H", "I", "G", "H">>), RBrace>>,
     <<LBrace, KeyTok("priority"), StrTok(<<"l", "o", "w">>), RBrace>>,
     <<NumTok(<<"5">>)>>}

\* the elements of a JSON array, comma separated
RECURSIVE JoinRecords(_)
JoinRecords(rs) ==
    IF rs = <<>> THEN <<>>
    ELSE IF Len(rs) = 1 THEN rs[1]
    ELSE rs[1] \o <<Comma>> \o JoinRecords(Tail(rs))

Batches == {<<LBracket>> \o JoinRecords(rs) \o <<RBracket>> : rs \in SeqsUpTo(Records, MaxBatch)}

\* what the model does: the call fails, the text is no JSON, the text is a
\* batch, the text is one record, bare or in an array after a word of prose
Replies ==
    {TransportError, Replied(<<WordTok>>)}
    \cup {Replied(b) : b \in Batches}
    \cup {Replied(r) : r \in Records}
    \cup {Replied(<<WordTok, LBracket>> \o r \o <<RBracket>>) : r \in Records}

Words == {<<"u", "r", "g", "e", "n", "t">>, <<"c", "a", "l", "l">>,
          <<"T", "o", "m", "o", "r", "r", "o", "w">>, <<"b", "y">>}

\* words separated by one space
RECURSIVE JoinWords(_)
JoinWords(ws) ==
    IF ws = <<>> THEN <<>>
    ELSE IF Len(ws) = 1 THEN ws[1]
    ELSE ws[1] \o <<" ">> \o JoinWords(Tail(ws))

Texts == {JoinWords(ws) : ws \in SeqsUpTo(Words, MaxWords)} \cup {<<" ">>}

InitParseNL ==
    /\ ValOff /\ DecOff /\ MatchOff /\ RestOff
    /\ natural_language = <<>>
    /\ reply = TransportError
    /\ pc = "idle"
    /\ task_data_list = <<>> /\ idx = 0 /\ validated_list = <<>>
    /\ draft = NoneVal /\ outcome = NotCalled /\ trace = <<>>

\* parse_task_nl(natural_language) is called; what the model will do when
\* asked is fixed here
Receive ==
    /\ pc = "idle"
    /\ natural_language' \in Texts
    /\ reply' \in Replies
    /\ pc' = "received"
    /\ UNCHANGED <<task_data_list, idx, validated_list, draft, outcome, trace>>
    /\ UNCHANGED <<valVars, decVars, matchVars, restVars>>

\* an error raised inside the outer try
RaiseInTry(err) ==
    IF CaughtByFallback(err)
    THEN pc' = "fallback" /\ outcome' = outcome
    ELSE pc' = "raised" /\ outcome' = Raised(err)

\* task_data_list = self.groq_client.parse_task_from_nl(natural_language)
ModelAttempt ==
    /\ pc = "received"
    /\ LET result == parse_task_from_nl(reply)
       IN  IF result.ok
           THEN /\ task_data_list' = result.val.items
                /\ idx' = 1
                /\ pc' = "validating"
                /\ outcome' = outcome
           ELSE /\ RaiseInTry(result.err)
                /\ UNCHANGED <<task_data_list, idx>>
    /\ trace' = Append(trace, "model_call")
    /\ UNCHANGED <<natural_language, reply, validated_list, draft>>
    /\ UNCHANGED <<valVars, decVars, matchVars, restVars>>

\* one turn of: for task_data in task_data_list
ValidateRecord ==
    /\ pc = "validating"
    /\ idx <= Len(task_data_list)
    /\ validated_list' = AppendValidated(validated_list,
                                         validate_task_data(task_data_list[idx]))
    /\ idx' = idx + 1
    /\ trace' = Append(trace, "validate_record")
    /\ UNCHANGED <<natural_language, reply, pc, task_data_list, draft, outcome>>
    /\ UNCHANGED <<valVars, decVars, matchVars, restVars>>

\* the end of the loop: raise on an empty list, return the list otherwise
EndBatch ==
    /\ pc = "validating"
    /\ idx > Len(task_data_list)
    /\ IF EmptyBatchRaises(validated_list)
       THEN /\ RaiseInTry(NoValidTasks)
            /\ trace' = Append(trace, "batch_empty")
       ELSE /\ pc' = "returned"
            /\ outcome' = Returned(ListVal(validated_list))
            /\ trace' = Append(trace, "accept")
    /\ UNCHANGED <<natural_language, reply, task_data_list, idx, validated_list, draft>>
    /\ UNCHANGED <<valVars, decVars, matchVars, restVars>>

\* task_data = parse_task_metadata(natural_language)
FallbackExtract ==
    /\ pc = "fallback"
    /\ \E resolvable \in SUBSET {k \in DuePatterns : DueMatches(k, natural_language)} :
            draft' = parse_task_metadata(natural_language, resolvable)
    /\ pc' = "fallback_validate"
    /\ trace' = Append(trace, "extract")
    /\ UNCHANGED <<natural_language, reply, task_data_list, idx, validated_list, outcome>>
    /\ UNCHANGED <<valVars, decVars, matchVars, restVars>>

\* return [validate_task_data(task_data)]
FallbackValidate ==
    /\ pc = "fallback_validate"
    /\ LET result == validate_task_data(draft)
       IN  IF result.ok
           THEN /\ pc' = "returned"
                /\ outcome' = Returned(ListVal(<<result.val>>))
                /\ trace' = Append(Append(trace, "validate_draft"), "accept")
           ELSE /\ pc' = "raised"
                /\ outcome' = Raised(result.err)
                /\ trace' = Append(Append(trace, "validate_draft"), "fail")
    /\ UNCHANGED <<natural_language, reply, task_data_list, idx, validated_list, draft>>
    /\ UNCHANGED <<valVars, decVars, matchVars, restVars>>

NextParseNL ==
    \/ Receive
    \/ ModelAttempt
    \/ ValidateRecord
    \/ EndBatch
    \/ FallbackExtract
    \/ FallbackValidate

SpecParseNL == InitParseNL /\ [][NextParseNL]_vars

\* parse_task_nl has returned, or raised
Terminal == {"returned", "raised"}

\* the call runs to its end, every step of parse_task_nl returning: weak
\* fairness of the steps, ENABLED <<NextParseNL>>_vars written as the
\* equivalent pc \notin Terminal
SpecParseNLFair ==
    SpecParseNL /\ (([]<>(pc \in Terminal)) \/ ([]<><<NextParseNL>>_vars))

----------------------------------------------------------------------------
(* The fallback extractor applied to a text.                               *)

\* the words of the texts: a high and a low priority keyword, keywords of
\* the categories work (which holds the social keyword meet), shopping and
\* social, a day word and a word that is no keyword
ExtractWords == {<<"U", "R", "G", "E", "N", "T">>, <<"l", "o", "w">>,
                 <<"M", "e", "e", "t", "i", "n", "g">>, <<"b", "u", "y">>,
                 <<"c", "a", "l", "l">>, <<"T", "o", "m", "o", "r", "r", "o", "w">>,
                 <<"x">>}

\* phrases of the due date patterns, one for each pattern
DuePhrases == {<<"T", "o", "d", "a", "y">>, <<"a", "t", " ", "5">>,
               <<"b", "y", " ", "x">>, <<"o", "n", " ", "x">>,
               <<"n", "e", "x", "t", " ", "x">>}

ExtractTexts ==
    {JoinWords(ws) : ws \in SeqsUpTo(ExtractWords, MaxPhrase)}
    \cup {JoinWords(ws) : ws \in SeqsUpTo(DuePhrases, MaxPhrase)}

InitExtract ==
    /\ input_text \in ExtractTexts
    /\ extracted = NoneVal
    /\ due_calls = <<>>
    /\ estep = "input"
    /\ ValOff /\ DecOff /\ MatchOff /\ NlOff /\ ToolOff /\ ProcOff

\* extracted = parse_task_metadata(input_text), the date resolver free to
\* resolve each matched phrase or not
Extract ==
    /\ estep = "input"
    /\ \E resolvable \in SUBSET {k \in DuePatterns : DueMatches(k, input_text)} :
            /\ extracted' = parse_task_metadata(input_text, resolvable)
            /\ due_calls' = DueLoop(1, input_text, resolvable, <<>>).calls
    /\ estep' = "extracted"
    /\ UNCHANGED <<input_text, valVars, decVars, matchVars, nlVars, toolVars,
                   procVars>>

NextExtract == Extract

SpecExtract == InitExtract /\ [][NextExtract]_vars

----------------------------------------------------------------------------
(* ai/agent.py: TaskAgent.extract_task_update, and parse_task_nl as one    *)
(* call.                                                                   *)

CouldNotParse == "ValueError: Could not parse update command"

\* json_str = response[start_idx:end_idx] when the response holds a '{' and
\* a later '}', the whole response otherwise
UpdateJson(t, start_idx, brace_end) ==
    IF start_idx # 0 /\ brace_end > start_idx
    THEN SubSeq(t, start_idx, brace_end) ELSE t

\* except Exception as e: raise ValueError("Could not parse update command")
UpdateParsed(loaded) == IF loaded.ok THEN loaded ELSE Raised(CouldNotParse)

\* extract_task_update(natural_language, existing_tasks), c being what the
\* model API does when asked
extract_task_update(c) ==
    IF c.fails THEN UpdateParsed(Raised(APIError))
    ELSE UpdateParsed(json_loads(UpdateJson(c.text, Find(c.text, LBrace),
                                            RFind(c.text, RBrace))))

\* the loop of parse_task_nl over the records of a batch
RECURSIVE ValidateAll(_, _)
ValidateAll(records, list) ==
    IF records = <<>> THEN list
    ELSE ValidateAll(Tail(records),
                     AppendValidated(list, validate_task_data(Head(records))))

\* return [validate_task_data(task_data)] of the fallback branch
FallbackReturn(v) == IF v.ok THEN Returned(ListVal(<<v.val>>)) ELSE v

\* the except branch of parse_task_nl for the error err
FallbackBranch(err, nl, resolvable) ==
    IF CaughtByFallback(err)
    THEN FallbackReturn(validate_task_data(parse_task_metadata(nl, resolvable)))
    ELSE Raised(err)

\* the end of the try block of parse_task_nl for the validated list
BatchReturn(list, nl, resolvable) ==
    IF EmptyBatchRaises(list) THEN FallbackBranch(NoValidTasks, nl, resolvable)
    ELSE Returned(ListVal(list))

\* the try block of parse_task_nl for the batch the client returned or the
\* error it raised
BatchOutcome(batch, nl, resolvable) ==
    IF batch.ok THEN BatchReturn(ValidateAll(batch.val.items, <<>>), nl, resolvable)
    ELSE FallbackBranch(batch.err, nl, resolvable)

\* parse_task_nl(natural_language) as one call
parse_task_nl(nl, c, resolvable) == BatchOutcome(parse_task_from_nl(c), nl, resolvable)

----------------------------------------------------------------------------
(* database/supabase_client.py: the store as the handlers use it.          *)

DBError == "APIError: the store failed"
IndexTypeError == "TypeError: indices must be integers"

\* a call made to the store
DbCall(op, id, arg) == [op |-> op, id |-> id, arg |-> arg]

\* a row of the tasks table: every column of select("*") that the handlers read
Row(title, i) ==
    DictVal([id       |-> StrVal(<<TaskIds[i]>>),
             title    |-> StrVal(title),
             status   |-> StrVal(PENDING),
             priority |-> StrVal(MEDIUM)])

\* the row with the updated columns
Merge(row, updates) ==
    [k \in DOMAIN row \cup DOMAIN updates |->
        IF k \in DOMAIN updates THEN updates[k] ELSE row[k]]

\* the rows with the given id
RowsWithId(rows, id) == {i \in 1..Len(rows) : rows[i].d["id"] = id}

\* db.update_task(task_id, updates): updates["updated_at"] = ... is a
\* TypeError on a value that is no mapping; no row of that id is a ValueError
update_task(rows, raises, task_id, updates) ==
    IF updates.kind # "dict" THEN Raised(IndexTypeError)
    ELSE IF raises = "write" THEN Raised(DBError)
    ELSE IF RowsWithId(rows, task_id) = {} THEN Raised("ValueError: Task not found")
    ELSE Returned(DictVal(Merge(rows[CHOOSE i \in RowsWithId(rows, task_id) : TRUE].d,
                                updates.d)))

\* db.create_task(task_data): task_data["updated_at"] = ... is a TypeError
\* on a value that is no mapping; the store adds the id and its defaults
create_task(raises, task_data_) ==
    IF task_data_.kind # "dict" THEN Raised(IndexTypeError)
    ELSE IF raises = "write" THEN Raised(DBError)
    ELSE Returned(DictVal(Merge([id       |-> StrVal(<<"n">>),
                                 priority |-> StrVal(MEDIUM),
                                 status   |-> StrVal(PENDING)], task_data_.d)))

\* db.list_tasks(limit=1000)
list_tasks(rows, raises) == IF raises = "list_tasks" THEN Raised(DBError) ELSE Returned(ListVal(rows))

----------------------------------------------------------------------------
(* mcp_server/tools/smart.py and api/main.py: the smart update handlers.   *)

AttributeError == "AttributeError: object has no such attribute"

MaxStored == 6
MaxThreads == 2

\* what one run of a handler leaves behind: its reply, the calls it made to
\* the store and what extract_task_update gave it
Out(r, calls, info) == [reply |-> r, calls |-> calls, info |-> info]

ListCall == DbCall("list_tasks", NoneVal, NoneVal)

\* d.get(k, default)
DictGet(v, k, default) == IF k \in DOMAIN v.d THEN v.d[k] ELSE default

\* a variant: every match is shown
ShownMatches_All(matches) == matches

\* matches[:5]
ShownMatches(matches) ==
    SubSeq(matches, 1, IF Len(matches) < 5 THEN Len(matches) ELSE 5)

\* a variant: the whole update command is handed to the store
UpdatesOf_Whole(info) == info

\* updates = update_info.get('updates', {})
UpdatesOf(info) == DictGet(info, "updates", DictVal(EmptyDict))

\* task_match = update_info.get('task_match', '')
TaskMatchOf(info) == DictGet(info, "task_match", StrVal(<<>>))

\* handle_smart_update from db.update_task on
SU_Updated(info, id, updates, updated) ==
    IF updated.ok
    THEN Out(Reply("success", 0, "", updated.val, <<>>, 0),
             <<ListCall, DbCall("update_task", id, updates)>>, info)
    ELSE Out(Reply("error", 0, updated.err, NoneVal, <<>>, 0),
             <<ListCall, DbCall("update_task", id, updates)>>, info)

\* handle_smart_update when find_matching_task gave no id
SU_NoId(info, matches) ==
    IF Len(matches) > 1
    THEN Out(Reply("ambiguous", 0, "", NoneVal, ShownMatches(matches), Len(matches)),
             <<ListCall>>, info)
    ELSE Out(Reply("not_found", 0, "", NoneVal, <<>>, 0), <<ListCall>>, info)

\* handle_smart_update from the id that find_matching_task returned on
SU_Matched(rows, raises, info, tm, updates, id) ==
    IF ~Truthy(id) THEN SU_NoId(info, MatchesOf(Lower(tm), rows))
    ELSE SU_Updated(info, id, updates, update_task(rows, raises, id, updates))

\* handle_smart_update from the check of task_match and updates on;
\* task_match.lower() is an AttributeError on a value that is no string
SU_Resolve(rows, raises, info, tm, updates) ==
    IF ~Truthy(tm) \/ ~Truthy(updates)
    THEN Out(Reply("not_understood", 0, "", NoneVal, <<>>, 0), <<ListCall>>, info)
    ELSE IF tm.kind # "str"
    THEN Out(Reply("error", 0, AttributeError, NoneVal, <<>>, 0), <<ListCall>>, info)
    ELSE SU_Matched(rows, raises, info, tm.s, updates,
                    find_matching_task(tm.s, rows).val)

\* handle_smart_update from the result of extract_task_update on;
\* update_info.get is an AttributeError on a value that is no mapping
SU_Extracted(rows, raises, info) ==
    IF ~info.ok
    THEN Out(Reply("error", 0, info.err, NoneVal, <<>>, 0), <<ListCall>>, info)
    ELSE IF info.val.kind # "dict"
    THEN Out(Reply("error", 0, AttributeError, NoneVal, <<>>, 0), <<ListCall>>, info)
    ELSE SU_Resolve(rows, raises, info, TaskMatchOf(info.val), UpdatesOf(info.val))

\* handle_smart_update from the result of db.list_tasks on
SU_Listed(listed, raises, c) ==
    IF ~listed.ok
    THEN Out(Reply("error", 0, listed.err, NoneVal, <<>>, 0), <<ListCall>>, NotCalled)
    ELSE IF listed.val.items = <<>>
    THEN Out(Reply("no_tasks", 0, "", NoneVal, <<>>, 0), <<ListCall>>, NotCalled)
    ELSE SU_Extracted(listed.val.items, raises, extract_task_update(c))

\* handle_smart_update(arguments)
handle_smart_update(nl, rows, raises, c) ==
    IF nl = <<>>
    THEN Out(Reply("required", 0, "", NoneVal, <<>>, 0), <<>>, NotCalled)
    ELSE SU_Listed(list_tasks(rows, raises), raises, c)

\* smart_update_endpoint from db.update_task on
EP_Updated(info, id, updates, updated) ==
    IF updated.ok
    THEN Out(Reply("success", 200, "", updated.val, <<>>, 0),
             <<ListCall, DbCall("update_task", id, updates)>>, info)
    ELSE Out(Reply("error", 500, updated.err, NoneVal, <<>>, 0),
             <<ListCall, DbCall("update_task", id, updates)>>, info)

\* smart_update_endpoint when find_matching_task gave no id
EP_NoId(info, matches) ==
    IF Len(matches) > 1
    THEN Out(Reply("ambiguous", 200, "", NoneVal, ShownMatches(matches), Len(matches)),
             <<ListCall>>, info)
    ELSE Out(Reply("not_found", 404, "", NoneVal, <<>>, 0), <<ListCall>>, info)

\* smart_update_endpoint from the id that find_matching_task returned on
EP_Matched(rows, raises, info, tm, updates, id) ==
    IF ~Truthy(id) THEN EP_NoId(info, MatchesOf(Lower(tm), rows))
    ELSE EP_Updated(info, id, updates, update_task(rows, raises, id, updates))

\* smart_update_endpoint from the check of task_match and updates on
EP_Resolve(rows, raises, info, tm, updates) ==
    IF ~Truthy(tm) \/ ~Truthy(updates)
    THEN Out(Reply("not_understood", 400, "", NoneVal, <<>>, 0), <<ListCall>>, info)
    ELSE IF tm.kind # "str"
    THEN Out(Reply("error", 500, AttributeError, NoneVal, <<>>, 0), <<ListCall>>, info)
    ELSE EP_Matched(rows, raises, info, tm.s, updates,
                    find_matching_task(tm.s, rows).val)

\* smart_update_endpoint from the result of extract_task_update on
EP_Extracted(rows, raises, info) ==
    IF ~info.ok
    THEN Out(Reply("error", 500, info.err, NoneVal, <<>>, 0), <<ListCall>>, info)
    ELSE IF info.val.kind # "dict"
    THEN Out(Reply("error", 500, AttributeError, NoneVal, <<>>, 0), <<ListCall>>, info)
    ELSE EP_Resolve(rows, raises, info, TaskMatchOf(info.val), UpdatesOf(info.val))

\* smart_update_endpoint(request)
smart_update_endpoint(rows, raises, c) ==
    IF raises = "list_tasks"
    THEN Out(Reply("error", 500, DBError, NoneVal, <<>>, 0), <<ListCall>>, NotCalled)
    ELSE EP_Extracted(rows, raises, extract_task_update(c))

----------------------------------------------------------------------------
(* mcp_server/tools/smart.py: handle_smart_add.                            *)

\* if 'status' not in task_data: task_data['status'] = 'pending'.  The
\* assignment is a TypeError on a list.
WithStatus(task_data_) ==
    CASE task_data_.kind = "dict" ->
            Returned(IF "status" \in DOMAIN task_data_.d THEN task_data_
                     ELSE DictVal(DictPut(task_data_.d, "status", StrVal(PENDING))))
      [] task_data_.kind = "list" ->
            IF \E i \in 1..Len(task_data_.items) :
                    task_data_.items[i] = StrVal(<<"s", "t", "a", "t", "u", "s">>)
            THEN Returned(task_data_) ELSE Raised(IndexTypeError)
      [] OTHER -> Raised(IndexTypeError)

\* handle_smart_add from db.create_task on
SA_Created(parsed, given, created) ==
    IF created.ok
    THEN Out(Reply("created", 0, "", created.val, <<>>, 0),
             <<DbCall("create_task", NoneVal, given)>>, parsed)
    ELSE Out(Reply("error", 0, created.err, NoneVal, <<>>, 0),
             <<DbCall("create_task", NoneVal, given)>>, parsed)

\* handle_smart_add from the status default on
SA_Defaulted(raises, parsed, given) ==
    IF ~given.ok
    THEN Out(Reply("error", 0, given.err, NoneVal, <<>>, 0), <<>>, parsed)
    ELSE SA_Created(parsed, given.val, create_task(raises, given.val))

\* handle_smart_add from the result of agent.parse_task_nl on
SA_Parsed(raises, parsed) ==
    IF ~parsed.ok
    THEN Out(Reply("error", 0, parsed.err, NoneVal, <<>>, 0), <<>>, parsed)
    ELSE SA_Defaulted(raises, parsed, WithStatus(parsed.val))

\* handle_smart_add(arguments)
handle_smart_add(nl, raises, c, resolvable) ==
    IF nl = <<>>
    THEN Out(Reply("required", 0, "", NoneVal, <<>>, 0), <<>>, NotCalled)
    ELSE SA_Parsed(raises, parse_task_nl(nl, c, resolvable))

----------------------------------------------------------------------------
(* ai/groq_client.py, ai/agent.py, mcp_server/tools/smart.py and           *)
(* api/main.py: natural-language search.                                   *)

SEARCH_TEXT == <<"s", "e", "a", "r", "c", "h", "_", "t", "e", "x", "t">>

\* {"search_text": query}
TextSearch(query) == DictVal([k \in {"search_text"} |-> StrVal(query)])

\* except json.JSONDecodeError: return {"search_text": query}
FiltersDecoded(loaded, query) ==
    IF loaded.ok THEN loaded ELSE Returned(TextSearch(query))

\* GroqClient.search_query_to_filters(query): the error of the model call
\* is raised, the text is decoded as in extract_task_update
search_query_to_filters(query, c) ==
    IF c.fails THEN Raised(APIError)
    ELSE FiltersDecoded(json_loads(UpdateJson(c.text, Find(c.text, LBrace),
                                              RFind(c.text, RBrace))), query)

\* the try / except of search_tasks_nl
FiltersOrTextSearch(filters, query) ==
    IF filters.ok THEN filters ELSE Returned(TextSearch(query))

\* TaskAgent.search_tasks_nl(query)
search_tasks_nl(query, c) == FiltersOrTextSearch(search_query_to_filters(query, c), query)

\* 'search_text' in filters: a key test on a dict, a substring test on a
\* str, a membership test on a list, a TypeError otherwise
HasSearchText(filters) ==
    CASE filters.kind = "dict" -> Returned("search_text" \in DOMAIN filters.d)
      [] filters.kind = "str"  -> Returned(Contains(filters.s, SEARCH_TEXT))
      [] filters.kind = "list" ->
            Returned(\E i \in 1..Len(filters.items) : filters.items[i] = StrVal(SEARCH_TEXT))
      [] OTHER -> Raised("TypeError: argument is not iterable")

\* the rows whose title holds the text, case ignored (ilike)
RowsLike(rows, q) ==
    SelectSeq(rows, LAMBDA row : Contains(Lower(row.d["title"].s), Lower(PyStr(q))))

\* db.search_tasks(query)
search_tasks(rows, raises, q) ==
    IF raises = "search_tasks" THEN Raised(DBError) ELSE Returned(ListVal(RowsLike(rows, q)))

\* the rows with the given status and priority, a filter that is falsy
\* left out
RowsBy(rows, status, priority) ==
    SelectSeq(rows, LAMBDA row :
        /\ Truthy(status) => row.d["status"] = status
        /\ Truthy(priority) => row.d["priority"] = priority)

\* db.list_tasks(status=status, priority=priority, limit=100), on a store
\* of fewer than 100 rows
list_tasks_by(rows, raises, status, priority) ==
    IF raises = "list_tasks" THEN Raised(DBError)
    ELSE Returned(ListVal(RowsBy(rows, status, priority)))

SearchCall(q) == DbCall("search_tasks", NoneVal, q)

ListByCall(status, priority) ==
    DbCall("list_tasks", NoneVal, DictVal([status |-> status, priority |-> priority]))

\* handle_search_tasks from the tasks the store returned on
ST_Found(filters, call, found) ==
    IF ~found.ok
    THEN Out(Reply("error", 0, found.err, NoneVal, <<>>, 0), <<call>>, filters)
    ELSE IF found.val.items = <<>>
    THEN Out(Reply("no_match", 0, "", NoneVal, <<>>, 0), <<call>>, filters)
    ELSE Out(Reply("found", 0, "", NoneVal, found.val.items, Len(found.val.items)),
             <<call>>, filters)

\* handle_search_tasks from the test of 'search_text' on.  filters[...] is
\* a TypeError on a str or a list, filters.get an AttributeError on them.
ST_Query(rows, raises, filters, has) ==
    IF ~has.ok
    THEN Out(Reply("error", 0, has.err, NoneVal, <<>>, 0), <<>>, filters)
    ELSE IF filters.val.kind # "dict"
    THEN Out(Reply("error", 0, IF has.val THEN IndexTypeError ELSE AttributeError,
                   NoneVal, <<>>, 0), <<>>, filters)
    ELSE IF has.val
    THEN ST_Found(filters, SearchCall(filters.val.d["search_text"]),
                  search_tasks(rows, raises, filters.val.d["search_text"]))
    ELSE ST_Found(filters,
                  ListByCall(DictGet(filters.val, "status", NoneVal),
                             DictGet(filters.val, "priority", NoneVal)),
                  list_tasks_by(rows, raises,
                                DictGet(filters.val, "status", NoneVal),
                                DictGet(filters.val, "priority", NoneVal)))

\* handle_search_tasks(arguments)
handle_search_tasks(query, rows, raises, c) ==
    IF query = <<>>
    THEN Out(Reply("required", 0, "", NoneVal, <<>>, 0), <<>>, NotCalled)
    ELSE ST_Query(rows, raises, search_tasks_nl(query, c),
                  HasSearchText(search_tasks_nl(query, c).val))

\* smart_search from the tasks the store returned on
SS_Found(filters, call, found) ==
    IF ~found.ok
    THEN Out(Reply("error", 500, found.err, NoneVal, <<>>, 0), <<call>>, filters)
    ELSE Out(Reply("found", 200, "", NoneVal, found.val.items, Len(found.val.items)),
             <<call>>, filters)

\* smart_search from the test of 'search_text' on
SS_Query(rows, raises, filters, has) ==
    IF ~has.ok
    THEN Out(Reply("error", 500, has.err, NoneVal, <<>>, 0), <<>>, filters)
    ELSE IF filters.val.kind # "dict"
    THEN Out(Reply("error", 500, IF has.val THEN IndexTypeError ELSE AttributeError,
                   NoneVal, <<>>, 0), <<>>, filters)
    ELSE IF has.val
    THEN SS_Found(filters, SearchCall(filters.val.d["search_text"]),
                  search_tasks(rows, raises, filters.val.d["search_text"]))
    ELSE SS_Found(filters,
                  ListByCall(DictGet(filters.val, "status", NoneVal),
                             DictGet(filters.val, "priority", NoneVal)),
                  list_tasks_by(rows, raises,
                                DictGet(filters.val, "status", NoneVal),
                                DictGet(filters.val, "priority", NoneVal)))

\* smart_search(request)
smart_search(query, rows, raises, c) ==
    SS_Query(rows, raises, search_tasks_nl(query, c),
             HasSearchText(search_tasks_nl(query, c).val))

----------------------------------------------------------------------------
(* api/main.py: POST /ai/smart-add.                                        *)

\* db.create_task as the call number k of a request, fails being the
\* number of the call on which the store fails (0: on none)
create_task_at(raises, fails, k, task_data_) ==
    IF fails = k THEN Raised(DBError) ELSE create_task(raises, task_data_)

\* a variant: a failed create_task does not end the loop
AbortsBatch_Never(created) == FALSE

\* created = db.create_task(task_data) raised: the loop ends
AbortsBatch(created) == ~created.ok

\* db.create_task for the task number k of the list, with its status
CreateAt(items, raises, fails, k) ==
    create_task_at(raises, fails, k, WithStatus(items[k]).val)

\* the tasks of the list on which db.create_task ends the loop
Aborting(items, raises, fails) ==
    {k \in 1..Len(items) : AbortsBatch(CreateAt(items, raises, fails, k))}

\* the number of the last task the loop reaches
LastTried(items, aborting) ==
    IF aborting = {} THEN Len(items)
    ELSE CHOOSE k \in aborting : \A j \in aborting : k <= j

\* the loop of smart_add over task_data_list, run up to the task number
\* last: the error it ended with, the tasks created and the calls made to
\* the store
Looped(items, raises, fails, aborting, last) ==
    [err     |-> IF aborting = {} THEN ""
                 ELSE CreateAt(items, raises, fails, last).err,
     created |-> [k \in 1..(IF aborting = {} THEN last ELSE last - 1) |->
                    CreateAt(items, raises, fails, k).val],
     calls   |-> [k \in 1..last |->
                    DbCall("create_task", NoneVal, WithStatus(items[k]).val)]]

\* for task_data in task_data_list: ... db.create_task(task_data)
CreateEach(items, raises, fails) ==
    Looped(items, raises, fails, Aborting(items, raises, fails),
           LastTried(items, Aborting(items, raises, fails)))

\* the answer of smart_add after the loop: the one created task, the list
\* of them, or HTTP 500
AddAnswer(batch) ==
    IF batch.err # "" THEN Reply("error", 500, batch.err, NoneVal, <<>>, 0)
    ELSE IF Len(batch.created) = 1
    THEN Reply("created", 200, "", batch.created[1], <<>>, 0)
    ELSE Reply("created", 200, "", NoneVal, batch.created, Len(batch.created))

\* smart_add from the loop on: its answer, its calls, the parsed list and
\* the rows it left in the store
AddDone(parsed, batch) ==
    [reply |-> AddAnswer(batch), calls |-> batch.calls, info |-> parsed,
     created |-> batch.created]

\* smart_add from the result of agent.parse_task_nl on
AddParsed(parsed, raises, fails) ==
    IF ~parsed.ok
    THEN [reply |-> Reply("error", 500, parsed.err, NoneVal, <<>>, 0),
          calls |-> <<>>, info |-> parsed, created |-> <<>>]
    ELSE AddDone(parsed, CreateEach(parsed.val.items, raises, fails))

\* smart_add(request)
smart_add(nl, raises, fails, c, resolvable) ==
    AddParsed(parse_task_nl(nl, c, resolvable), raises, fails)

----------------------------------------------------------------------------
(* The handlers, each called once on a store and a model API.              *)

StoredTitles == {<<"A", "b">>, <<"b">>}

\* the titles a model may name
MatchNames == {<<"a">>, <<"B">>, <<"x">>, <<>>}

\* the update commands a model may write
UpdateObjects ==
    {<<LBrace, KeyTok("task_match"), StrTok(m), Comma, KeyTok("updates")>> \o u
        \o <<RBrace>> :
        m \in MatchNames,
        u \in {<<LBrace, KeyTok("status"), StrTok(COMPLETED), RBrace>>,
               <<LBrace, RBrace>>}}

\* what the model does when asked for an update command: the call fails,
\* the text is no JSON, a number, an array, an object (bare or after a word
\* of prose), an object without updates, with a task_match that is no
\* string, with updates that are no mapping, or with updates outside the
\* task schema
UpdateReplies ==
    {TransportError, Replied(<<WordTok>>), Replied(<<NumTok(<<"5">>)>>),
     Replied(<<LBracket, RBracket>>),
     Replied(<<LBrace, KeyTok("task_match"), StrTok(<<"a">>), RBrace>>),
     Replied(<<LBrace, KeyTok("task_match"), NumTok(<<"5">>), Comma,
               KeyTok("updates"), LBrace, KeyTok("status"), StrTok(COMPLETED),
               RBrace, RBrace>>),
     Replied(<<LBrace, KeyTok("task_match"), StrTok(<<"a">>), Comma,
               KeyTok("updates"), StrTok(COMPLETED), RBrace>>),
     Replied(<<LBrace, KeyTok("task_match"), StrTok(<<"a">>), Comma,
               KeyTok("updates"), LBrace, KeyTok("status"), StrTok(<<"d", "o", "n", "e">>),
               Comma, KeyTok("priority"), StrTok(<<"u", "r", "g", "e", "n", "t">>),
               Comma, KeyTok("title"), StrTok(<<>>), RBrace, RBrace>>)}
    \cup {Replied(o) : o \in UpdateObjects}
    \cup {Replied(<<WordTok>> \o o \o <<WordTok>>) : o \in UpdateObjects}

UpdateTexts == {<<>>, <<"f", "i", "n", "i", "s", "h", " ", "a">>}

\* what the model does when asked for tasks
AddReplies ==
    {TransportError, Replied(<<WordTok>>)}
    \cup {Replied(r) : r \in Records}
    \cup {Replied(<<LBracket>> \o JoinRecords(rs) \o <<RBracket>>) :
            rs \in SeqsUpTo(Records, 2)}

\* what the model does when asked for tasks by the route: as above, a
\* batch of up to MaxBatch records, a batch whose first record has a status
BatchReplies ==
    {TransportError, Replied(<<WordTok>>)}
    \cup {Replied(<<LBracket>> \o JoinRecords(rs) \o <<RBracket>>) :
            rs \in SeqsUpTo({<<LBrace, KeyTok("title"), StrTok(<<"a">>), RBrace>>,
                             <<LBrace, KeyTok("title"), StrTok(<<"b">>), Comma,
                               KeyTok("status"), StrTok(COMPLETED), RBrace>>,
                             <<LBrace, KeyTok("title"), StrTok(<<>>), RBrace>>},
                            MaxBatch)}

AddTexts == {<<>>, <<"c", "a", "l", "l">>, <<"u", "r", "g", "e", "n", "t">>}

StoreFailures == {"none", "list_tasks", "search_tasks", "write"}

\* the filters a model may write: a search text, a status, a status that
\* is none and a priority, nothing
FilterObjects ==
    {<<LBrace, KeyTok("search_text"), StrTok(<<"a">>), RBrace>>,
     <<LBrace, KeyTok("status"), StrTok(PENDING), RBrace>>,
     <<LBrace, KeyTok("status"), StrTok(<<"d", "o", "n", "e">>), Comma,
       KeyTok("priority"), StrTok(MEDIUM), RBrace>>,
     <<LBrace, KeyTok("search_text"), StrTok(<<"x">>), Comma,
       KeyTok("status"), StrTok(PENDING), RBrace>>,
     <<LBrace, RBrace>>}

\* what the model does when asked for filters: the call fails, the text is
\* no JSON, a number, an array, a string, an object (bare or in prose)
SearchReplies ==
    {TransportError, Replied(<<WordTok>>), Replied(<<NumTok(<<"5">>)>>),
     Replied(<<LBracket, RBracket>>), Replied(<<StrTok(SEARCH_TEXT)>>),
     Replied(<<StrTok(<<"a">>)>>), Replied(<<NullTok>>),
     Replied(<<LBrace, KeyTok("status"), RBrace>>)}
    \cup {Replied(o) : o \in FilterObjects}
    \cup {Replied(<<WordTok>> \o o \o <<WordTok>>) : o \in FilterObjects}

SearchTexts == {<<>>, <<"b">>}

InitTool ==
    /\ ValOff /\ DecOff /\ MatchOff /\ NlOff /\ ExtOff /\ ProcOff
    /\ \/ /\ tool \in {"smart_update", "/ai/update"}
          /\ arguments \in UpdateTexts
          /\ chat \in UpdateReplies
          /\ \E titles \in SeqsUpTo(StoredTitles, MaxStored) :
                all_tasks = [i \in 1..Len(titles) |-> Row(titles[i], i)]
       \/ /\ tool = "smart_add"
          /\ arguments \in AddTexts
          /\ chat \in AddReplies
          /\ all_tasks = <<>>
       \/ /\ tool = "/ai/smart-add"
          /\ arguments \in AddTexts
          /\ chat \in BatchReplies
          /\ all_tasks \in {<<>>, <<Row(<<"b">>, 1)>>}
       \/ /\ tool \in {"search_tasks", "/ai/search"}
          /\ arguments \in SearchTexts
          /\ chat \in SearchReplies
          /\ \E titles \in SeqsUpTo(StoredTitles, 2) :
                all_tasks = [i \in 1..Len(titles) |-> Row(titles[i], i)]
    /\ db_raises \in StoreFailures
    /\ update_info = NotCalled
    /\ db_calls = <<>>
    /\ tool_reply = NoResult
    /\ hstep = "called"
    /\ tool_name = "" /\ tool_args = NoneVal
    /\ fail_at \in (IF tool = "/ai/smart-add" THEN 0..MaxBatch ELSE {0})

\* the handler leaves its reply, its calls and what it extracted
Answers(o) ==
    /\ tool_reply' = o.reply
    /\ db_calls' = o.calls
    /\ update_info' = o.info
    /\ hstep' = "answered"
    /\ UNCHANGED <<tool, arguments, chat, all_tasks, db_raises>>
    /\ UNCHANGED <<tool_name, tool_args, fail_at>>
    /\ UNCHANGED <<valVars, decVars, matchVars, nlVars, extVars, procVars>>

HandleSmartUpdate ==
    /\ tool = "smart_update" /\ hstep = "called"
    /\ Answers(handle_smart_update(arguments, all_tasks, db_raises, chat))

SmartUpdateEndpoint ==
    /\ tool = "/ai/update" /\ hstep = "called"
    /\ Answers(smart_update_endpoint(all_tasks, db_raises, chat))

HandleSmartAdd ==
    /\ tool = "smart_add" /\ hstep = "called"
    /\ \E resolvable \in SUBSET {k \in DuePatterns : DueMatches(k, arguments)} :
          Answers(handle_smart_add(arguments, db_raises, chat, resolvable))

HandleSearchTasks ==
    /\ tool = "search_tasks" /\ hstep = "called"
    /\ Answers(handle_search_tasks(arguments, all_tasks, db_raises, chat))

SmartSearch ==
    /\ tool = "/ai/search" /\ hstep = "called"
    /\ Answers(smart_search(arguments, all_tasks, db_raises, chat))

\* the route leaves its answer and its calls, and the created rows in the
\* store
Adds(o) ==
    /\ tool_reply' = o.reply
    /\ db_calls' = o.calls
    /\ update_info' = o.info
    /\ all_tasks' = all_tasks \o o.created
    /\ hstep' = "answered"
    /\ UNCHANGED <<tool, arguments, chat, db_raises, tool_name, tool_args, fail_at>>
    /\ UNCHANGED <<valVars, decVars, matchVars, nlVars, extVars, procVars>>

SmartAdd ==
    /\ tool = "/ai/smart-add" /\ hstep = "called"
    /\ \E resolvable \in SUBSET {k \in DuePatterns : DueMatches(k, arguments)} :
          Adds(smart_add(arguments, db_raises, fail_at, chat, resolvable))

NextTool ==
    \/ HandleSmartUpdate \/ SmartUpdateEndpoint \/ HandleSmartAdd
    \/ HandleSearchTasks \/ SmartSearch \/ SmartAdd

SpecTool == InitTool /\ [][NextTool]_vars

----------------------------------------------------------------------------
(* mcp_server/tools/crud.py: the CRUD handlers.  A handler returns its      *)
(* reply or raises; either way it has made its calls to the store.         *)

KeyError == "KeyError"
SubscriptError == "TypeError: object is not subscriptable"

\* the handler returned the reply r
Handled(r, calls) == [raised |-> "", reply |-> r, calls |-> calls]

\* the handler raised err
Threw(err, calls) == [raised |-> err, reply |-> NoResult, calls |-> calls]

\* ["title", "description", "status", "priority", "category", "due_date"]
UpdateFields == {"title", "description", "status", "priority", "category", "due_date"}

\* a variant: a field is taken when its value is truthy
FieldProvided_Truthy(d, field) == field \in DOMAIN d /\ Truthy(d[field])

\* if field in arguments and arguments[field] is not None
FieldProvided(d, field) == field \in DOMAIN d /\ d[field] # NoneVal

\* the updates dictionary built from the arguments
BuildUpdates(d) ==
    DictVal([field \in {f \in UpdateFields : FieldProvided(d, f)} |-> d[field]])

\* handle_update_task from db.update_task on
UT_Updated(id, updates, updated) ==
    IF updated.ok
    THEN Handled(Reply("success", 0, "", updated.val, <<>>, 0),
                 <<DbCall("update_task", id, updates)>>)
    ELSE Threw(updated.err, <<DbCall("update_task", id, updates)>>)

\* handle_update_task from the updates dictionary on
UT_Built(rows, raises, id, updates) ==
    IF ~Truthy(updates)
    THEN Handled(Reply("no_updates", 0, "", NoneVal, <<>>, 0), <<>>)
    ELSE UT_Updated(id, updates, update_task(rows, raises, id, updates))

\* handle_update_task(arguments)
handle_update_task(a, rows, raises) ==
    IF a.kind # "dict" THEN Threw(SubscriptError, <<>>)
    ELSE IF "task_id" \notin DOMAIN a.d THEN Threw(KeyError, <<>>)
    ELSE UT_Built(rows, raises, a.d["task_id"], BuildUpdates(a.d))

\* db.delete_task(task_id): deleting an id that has no row is no error; the
\* True it returns is not used
delete_task(raises, task_id) ==
    IF raises = "write" THEN Raised(DBError) ELSE Returned(NoneVal)

\* the task data handle_add_task builds: due_date only when it is truthy
AT_TaskData(a) ==
    LET task == [title       |-> a.d["title"],
                 description |-> DictGet(a, "description", NoneVal),
                 priority    |-> DictGet(a, "priority", StrVal(MEDIUM)),
                 category    |-> DictGet(a, "category", NoneVal),
                 tags        |-> DictGet(a, "tags", ListVal(<<>>)),
                 status      |-> StrVal(PENDING)]
    IN  DictVal(IF "due_date" \in DOMAIN a.d /\ Truthy(a.d["due_date"])
                THEN DictPut(task, "due_date", a.d["due_date"])
                ELSE task)

\* handle_add_task from db.create_task on
AT_Created(given, created) ==
    IF created.ok
    THEN Handled(Reply("created", 0, "", created.val, <<>>, 0),
                 <<DbCall("create_task", NoneVal, given)>>)
    ELSE Threw(created.err, <<DbCall("create_task", NoneVal, given)>>)

\* handle_add_task(arguments)
handle_add_task(a, raises) ==
    IF a.kind # "dict" THEN Threw(SubscriptError, <<>>)
    ELSE IF "title" \notin DOMAIN a.d THEN Threw(KeyError, <<>>)
    ELSE AT_Created(AT_TaskData(a), create_task(raises, AT_TaskData(a)))

\* handle_list_tasks from db.list_tasks on
LT_Listed(call, listed) ==
    IF ~listed.ok THEN Threw(listed.err, <<call>>)
    ELSE IF listed.val.items = <<>>
    THEN Handled(Reply("no_tasks", 0, "", NoneVal, <<>>, 0), <<call>>)
    ELSE Handled(Reply("found", 0, "", NoneVal, listed.val.items,
                       Len(listed.val.items)), <<call>>)

\* handle_list_tasks(arguments)
handle_list_tasks(a, rows, raises) ==
    IF a.kind # "dict" THEN Threw(AttributeError, <<>>)
    ELSE LT_Listed(ListByCall(DictGet(a, "status", NoneVal),
                              DictGet(a, "priority", NoneVal)),
                   list_tasks_by(rows, raises, DictGet(a, "status", NoneVal),
                                 DictGet(a, "priority", NoneVal)))

\* handle_delete_task from db.delete_task on
DT_Deleted(id, deleted) ==
    IF deleted.ok
    THEN Handled(Reply("deleted", 0, "", id, <<>>, 0),
                 <<DbCall("delete_task", id, NoneVal)>>)
    ELSE Threw(deleted.err, <<DbCall("delete_task", id, NoneVal)>>)

\* handle_delete_task(arguments)
handle_delete_task(a, raises) ==
    IF a.kind # "dict" THEN Threw(SubscriptError, <<>>)
    ELSE IF "task_id" \notin DOMAIN a.d THEN Threw(KeyError, <<>>)
    ELSE DT_Deleted(a.d["task_id"], delete_task(raises, a.d["task_id"]))

\* the rows of the store after one call
RowsAfterCall(rows, raises, call) ==
    CASE call.op = "create_task" ->
            IF create_task(raises, call.arg).ok
            THEN Append(rows, create_task(raises, call.arg).val)
            ELSE rows
      [] call.op = "update_task" ->
            IF update_task(rows, raises, call.id, call.arg).ok
            THEN [i \in 1..Len(rows) |->
                    IF rows[i].d["id"] = call.id
                    THEN update_task(rows, raises, call.id, call.arg).val
                    ELSE rows[i]]
            ELSE rows
      [] call.op = "delete_task" ->
            IF delete_task(raises, call.id).ok
            THEN SelectSeq(rows, LAMBDA row : row.d["id"] # call.id)
            ELSE rows
      [] OTHER -> rows

\* the rows of the store after the calls
RECURSIVE RowsAfter(_, _, _)
RowsAfter(rows, raises, calls) ==
    IF calls = <<>> THEN rows
    ELSE RowsAfter(RowsAfterCall(rows, raises, Head(calls)), raises, Tail(calls))

----------------------------------------------------------------------------
(* mcp_server/server.py: the dispatcher.                                   *)

ToolNames == {"add_task", "list_tasks", "update_task", "delete_task",
              "smart_add", "search_tasks", "smart_update"}

\* arguments.get(key, "") in a smart handler, as text
TextArgument(a, key) == DictGet(a, key, StrVal(<<>>)).s

\* a smart handler on arguments that are no mapping: arguments.get is an
\* AttributeError inside its try
NoMapping == Handled(Reply("error", 0, AttributeError, NoneVal, <<>>, 0), <<>>)

\* a smart handler returned
Smart(o) == Handled(o.reply, o.calls)

\* the handler of the if / elif chain called with the arguments
Dispatched(name, a, rows, raises, c, resolvable) ==
    CASE name = "add_task"     -> handle_add_task(a, raises)
      [] name = "list_tasks"   -> handle_list_tasks(a, rows, raises)
      [] name = "update_task"  -> handle_update_task(a, rows, raises)
      [] name = "delete_task"  -> handle_delete_task(a, raises)
      [] name = "smart_add"    ->
            IF a.kind # "dict" THEN NoMapping
            ELSE Smart(handle_smart_add(TextArgument(a, "natural_language"),
                                        raises, c, resolvable))
      [] name = "search_tasks" ->
            IF a.kind # "dict" THEN NoMapping
            ELSE Smart(handle_search_tasks(TextArgument(a, "query"), rows, raises, c))
      [] name = "smart_update" ->
            IF a.kind # "dict" THEN NoMapping
            ELSE Smart(handle_smart_update(TextArgument(a, "natural_language"),
                                           rows, raises, c))

\* what call_tool did: the list it returned, or the exception it let through
ToolResult(err, replies, calls, called) ==
    [raised |-> err, replies |-> replies, calls |-> calls, called |-> called]

\* a variant: only the errors of the store are caught
CaughtByCallTool_StoreErrors(err) == err = DBError

\* except Exception as e
CaughtByCallTool(err) == TRUE

\* call_tool from the handler's return or exception on
CT_Handled(name, h) ==
    IF h.raised = "" THEN ToolResult("", <<h.reply>>, h.calls, <<name>>)
    ELSE IF CaughtByCallTool(h.raised)
    THEN ToolResult("", <<Reply("tool_error", 0, h.raised, NoneVal, <<>>, 0)>>,
                    h.calls, <<name>>)
    ELSE ToolResult(h.raised, <<>>, h.calls, <<name>>)

\* call_tool(name, arguments)
call_tool(name, a, rows, raises, c, resolvable) ==
    IF name \notin ToolNames
    THEN ToolResult("", <<Reply("unknown_tool", 0, name, NoneVal, <<>>, 0)>>,
                    <<>>, <<>>)
    ELSE CT_Handled(name, Dispatched(name, a, rows, raises, c, resolvable))

----------------------------------------------------------------------------
(* The CRUD handlers and the dispatcher, each called once.                 *)

\* the arguments holding the given fields, the absent ones left out
MakeArgs(task_id, title, description, status, priority, category, due_date, tags_) ==
    LET all == [task_id |-> task_id, title |-> title, description |-> description,
                status |-> status, priority |-> priority, category |-> category,
                due_date |-> due_date, tags |-> tags_]
    IN  DictVal([k \in {x \in DOMAIN all : all[x] # Absent} |-> all[k]])

\* arguments of update_task: every field absent, null or given; an empty
\* title; a task_id that is stored, one that is not, and none
UpdateArgs ==
    {MakeArgs(task_id, title, description, status, priority, category, due_date, tags_) :
        task_id \in {Absent, StrVal(<<"1">>), StrVal(<<"9">>)},
        title \in {Absent, NoneVal, StrVal(<<>>), StrVal(<<"n">>)},
        description \in {Absent, NoneVal, StrVal(<<"d">>)},
        status \in {Absent, NoneVal, StrVal(COMPLETED)},
        priority \in {Absent, StrVal(HIGH)},
        category \in {Absent, NoneVal},
        due_date \in {Absent, StrVal(<<"d">>)},
        tags_ \in {Absent, ListVal(<<StrVal(<<"t">>)>>)}}

\* a mapping with the one key
OneKey(key, v) == DictVal([k \in {key} |-> v])

\* arguments of add_task
AddTaskArgs ==
    {MakeArgs(Absent, title, Absent, Absent, priority, Absent, due_date, tags_) :
        title \in {Absent, StrVal(<<"n">>)},
        priority \in {Absent, StrVal(HIGH)},
        due_date \in {Absent, StrVal(<<>>), StrVal(<<"d">>)},
        tags_ \in {Absent, ListVal(<<StrVal(<<"t">>)>>)}}

\* arguments of list_tasks
ListTasksArgs ==
    {MakeArgs(Absent, Absent, Absent, status, priority, Absent, Absent, Absent) :
        status \in {Absent, StrVal(PENDING), StrVal(COMPLETED)},
        priority \in {Absent, StrVal(MEDIUM)}}

\* the arguments given to call_tool with each name: what the tool's schema
\* asks for, a mapping without the required key, and no mapping
ToolArgs(name) ==
    {NoneVal, DictVal(EmptyDict)} \cup
    CASE name = "add_task"     -> AddTaskArgs
      [] name = "list_tasks"   -> ListTasksArgs
      [] name = "update_task"  ->
            {a \in UpdateArgs : DOMAIN a.d \subseteq {"task_id", "title", "status"}}
      [] name = "delete_task"  ->
            {OneKey("task_id", StrVal(<<"1">>)), OneKey("task_id", StrVal(<<"9">>))}
      [] name = "smart_add"    -> {OneKey("natural_language", StrVal(t)) : t \in AddTexts}
      [] name = "search_tasks" -> {OneKey("query", StrVal(t)) : t \in SearchTexts}
      [] name = "smart_update" ->
            {OneKey("natural_language", StrVal(t)) : t \in UpdateTexts}
      [] OTHER -> {}

\* what the model does when a smart tool asks it
ToolChats(name) ==
    CASE name = "smart_add"    -> AddReplies
      [] name = "search_tasks" -> SearchReplies
      [] name = "smart_update" -> UpdateReplies
      [] OTHER -> {TransportError}

InitDispatch ==
    /\ ValOff /\ DecOff /\ MatchOff /\ NlOff /\ ExtOff /\ ProcOff
    /\ \/ /\ tool = "handle_update_task"
          /\ tool_name = ""
          /\ tool_args \in UpdateArgs \cup {NoneVal}
          /\ chat = TransportError
          /\ db_raises \in {"none", "write"}
       \/ /\ tool = "call_tool"
          /\ tool_name \in ToolNames \cup {"nope"}
          /\ tool_args \in ToolArgs(tool_name)
          /\ chat \in ToolChats(tool_name)
          /\ db_raises \in StoreFailures
    /\ arguments = <<>>
    /\ \E titles \in SeqsUpTo(StoredTitles, 1) :
          all_tasks = [i \in 1..Len(titles) |-> Row(titles[i], i)]
    /\ update_info = NotCalled
    /\ db_calls = <<>>
    /\ tool_reply = NoResult
    /\ hstep = "called"
    /\ fail_at = 0

\* the handler returns its reply, or raises and leaves no reply; the store
\* holds what its calls left
Returns(h) ==
    /\ tool_reply' = (IF h.raised = "" THEN h.reply
                      ELSE Reply("raised", 0, h.raised, NoneVal, <<>>, 0))
    /\ db_calls' = h.calls
    /\ all_tasks' = RowsAfter(all_tasks, db_raises, h.calls)
    /\ hstep' = "answered"
    /\ UNCHANGED <<tool, arguments, chat, db_raises, update_info>>
    /\ UNCHANGED <<tool_name, tool_args, fail_at>>
    /\ UNCHANGED <<valVars, decVars, matchVars, nlVars, extVars, procVars>>

HandleUpdateTask ==
    /\ tool = "handle_update_task" /\ hstep = "called"
    /\ Returns(handle_update_task(tool_args, all_tasks, db_raises))

\* call_tool returns its list, or lets an exception through; the store
\* holds what the handler's calls left
Called(r) ==
    /\ tool_result' = r.replies
    /\ handlers_called' = r.called
    /\ call_raised' = r.raised
    /\ db_calls' = r.calls
    /\ all_tasks' = RowsAfter(all_tasks, db_raises, r.calls)
    /\ hstep' = "answered"
    /\ UNCHANGED <<tool, arguments, chat, db_raises, update_info, tool_reply>>
    /\ UNCHANGED <<tool_name, tool_args, fail_at, singVars>>
    /\ UNCHANGED <<valVars, decVars, matchVars, nlVars, extVars>>

CallTool ==
    /\ tool = "call_tool" /\ hstep = "called"
    /\ \E resolvable \in SUBSET {k \in DuePatterns :
                                   /\ tool_args.kind = "dict"
                                   /\ DueMatches(k, TextArgument(tool_args, "natural_language"))} :
          Called(call_tool(tool_name, tool_args, all_tasks, db_raises, chat, resolvable))

NextDispatch == HandleUpdateTask \/ CallTool

SpecDispatch == InitDispatch /\ [][NextDispatch]_vars

----------------------------------------------------------------------------
(* ai/groq_client.py and ai/agent.py: get_groq_client and get_task_agent   *)
(* called by several threads.  A thread may be suspended between any two   *)
(* of its steps: the test of the handle, the constructor, the store into   *)
(* the handle, and the load of the handle that is returned.                *)

Threads == 1..MaxThreads

\* _groq_client: Optional[GroqClient] = None
NoClient == 0

\* _task_agent: Optional[TaskAgent] = None
NoAgent == [id |-> 0, groq_client |-> NoClient]

\* the instance of TaskAgent number id, with its self.groq_client
Agent(id, client) == [id |-> id, groq_client |-> client]

\* the two module-level handles, or one instance of each class
Pair(client, agent) == [groq |-> client, agent |-> agent]

\* a variant: the handle is taken for unset whatever it holds
IsUnset_Always(h, none) == TRUE

\* if _groq_client is None / if _task_agent is None
IsUnset(h, none) == h = none

InitSingleton ==
    /\ ValOff /\ DecOff /\ MatchOff /\ NlOff /\ ExtOff /\ ToolOff /\ DispOff
    /\ getter \in {[name |-> n, api_key |-> k] :
                      n \in {"get_groq_client", "get_task_agent"}, k \in BOOLEAN}
    /\ handle = Pair(NoClient, NoAgent)
    /\ constructed = [groq |-> 0, agent |-> 0]
    /\ thread_pc = [t \in Threads |->
                      IF getter.name = "get_groq_client" THEN "groq_check"
                      ELSE "agent_check"]
    /\ thread_new = [t \in Threads |-> Pair(NoClient, NoAgent)]
    /\ thread_got = [t \in Threads |-> Pair(NoClient, NoAgent)]
    /\ saw_unset = [t \in Threads |-> [groq |-> FALSE, agent |-> FALSE]]

\* thread t goes on at the step pc
Goto(t, step) == thread_pc' = [thread_pc EXCEPT ![t] = step]

SingletonFrame == UNCHANGED <<valVars, decVars, matchVars, nlVars, extVars, toolVars,
                              dispVars, getter>>

\* get_groq_client: if _groq_client is None
GroqCheck(t) ==
    /\ thread_pc[t] = "groq_check"
    /\ saw_unset' = [saw_unset EXCEPT ![t].groq = (handle.groq = NoClient)]
    /\ Goto(t, IF IsUnset(handle.groq, NoClient) THEN "groq_init" ELSE "groq_return")
    /\ UNCHANGED <<handle, constructed, thread_new, thread_got>>
    /\ SingletonFrame

\* GroqClient(): ValueError without GROQ_API_KEY, a new instance with it
GroqInit(t) ==
    /\ thread_pc[t] = "groq_init"
    /\ IF getter.api_key
       THEN /\ constructed' = [constructed EXCEPT !.groq = @ + 1]
            /\ thread_new' = [thread_new EXCEPT ![t].groq = constructed.groq + 1]
            /\ Goto(t, "groq_store")
       ELSE /\ Goto(t, "raised")
            /\ UNCHANGED <<constructed, thread_new>>
    /\ UNCHANGED <<handle, thread_got, saw_unset>>
    /\ SingletonFrame

\* _groq_client = GroqClient()
GroqStore(t) ==
    /\ thread_pc[t] = "groq_store"
    /\ handle' = [handle EXCEPT !.groq = thread_new[t].groq]
    /\ Goto(t, "groq_return")
    /\ UNCHANGED <<constructed, thread_new, thread_got, saw_unset>>
    /\ SingletonFrame

\* return _groq_client: to the caller, or to TaskAgent.__init__, which keeps
\* it as self.groq_client of the new instance
GroqReturn(t) ==
    /\ thread_pc[t] = "groq_return"
    /\ IF getter.name = "get_groq_client"
       THEN /\ thread_got' = [thread_got EXCEPT ![t].groq = handle.groq]
            /\ Goto(t, "done")
            /\ UNCHANGED <<constructed, thread_new>>
       ELSE /\ constructed' = [constructed EXCEPT !.agent = @ + 1]
            /\ thread_new' = [thread_new EXCEPT
                                ![t].agent = Agent(constructed.agent + 1, handle.groq)]
            /\ Goto(t, "agent_store")
            /\ UNCHANGED thread_got
    /\ UNCHANGED <<handle, saw_unset>>
    /\ SingletonFrame

\* get_task_agent: if _task_agent is None; TaskAgent() starts with
\* get_groq_client()
AgentCheck(t) ==
    /\ thread_pc[t] = "agent_check"
    /\ saw_unset' = [saw_unset EXCEPT ![t].agent = (handle.agent = NoAgent)]
    /\ Goto(t, IF IsUnset(handle.agent, NoAgent) THEN "groq_check" ELSE "agent_return")
    /\ UNCHANGED <<handle, constructed, thread_new, thread_got>>
    /\ SingletonFrame

\* _task_agent = TaskAgent()
AgentStore(t) ==
    /\ thread_pc[t] = "agent_store"
    /\ handle' = [handle EXCEPT !.agent = thread_new[t].agent]
    /\ Goto(t, "agent_return")
    /\ UNCHANGED <<constructed, thread_new, thread_got, saw_unset>>
    /\ SingletonFrame

\* return _task_agent
AgentReturn(t) ==
    /\ thread_pc[t] = "agent_return"
    /\ thread_got' = [thread_got EXCEPT ![t].agent = handle.agent]
    /\ Goto(t, "done")
    /\ UNCHANGED <<handle, constructed, thread_new, saw_unset>>
    /\ SingletonFrame

NextSingleton ==
    \E t \in Threads :
        \/ GroqCheck(t) \/ GroqInit(t) \/ GroqStore(t) \/ GroqReturn(t)
        \/ AgentCheck(t) \/ AgentStore(t) \/ AgentReturn(t)

SpecSingleton == InitSingleton /\ [][NextSingleton]_vars



----------------------------------------------------------------------------
\* ---- properties ----

\* the title of the input dict is absent, or a string that is empty or blank
TitleBlank(td) ==
    \/ "title" \notin DOMAIN td.d
    \/ td.d["title"].kind = "str" /\ Strip(td.d["title"].s) = <<>>

\* C1: validate_task_data fails with 'Task title is required' on every input
\* dict whose title is absent, empty or blank after trimming, whatever the
\* other fields hold.
C1_BlankTitleRejected ==
    (vstep # "input" /\ task_data.kind = "dict" /\ TitleBlank(task_data))
        => (~validated.ok /\ validated.err = TitleRequired)

\* C2: validation is idempotent: validating the output of a successful
\* validation succeeds and returns an equal record, field for field.
C2_Idempotent ==
    vstep = "revalidated" => (revalidated.ok /\ revalidated.val = validated.val)


\* ---- the decoder (C3, C4, C5) ----

OpenToks  == {LBracket, LBrace}
CloseToks == {RBracket, RBrace}
FenceToks == {Fence, FenceJson}

\* the text between positions i and j is one JSON array or object
IsJsonAt(t, i, j) ==
    /\ i <= j
    /\ LET v == json_loads(SubSeq(t, i, j))
       IN  v.ok /\ v.val.kind \in {"list", "dict"}

\* the spans of t that are a JSON array or object
JsonSpans(t) == {sp \in (1..Len(t)) \X (1..Len(t)) : IsJsonAt(t, sp[1], sp[2])}

\* those that lie in no other one: the structures embedded in the text
EmbeddedSpans(t) ==
    {sp \in JsonSpans(t) :
        \A other \in JsonSpans(t) :
            (other[1] <= sp[1] /\ sp[2] <= other[2]) => other = sp}

\* the text has no fence marker, or one fenced block that holds the span
FencedOrBare(t, sp) ==
    LET marks == {k \in 1..Len(t) : t[k] \in FenceToks}
    IN  \/ marks = {}
        \/ \E a \in 1..(sp[1] - 1), b \in (sp[2] + 1)..Len(t) :
              marks = {a, b} /\ t[b] = Fence

\* the sequence the structure stands for: the elements of an array, or the
\* object alone
AsSequence(v) == IF v.kind = "dict" THEN ListVal(<<v>>) ELSE v

\* the structure at span sp, as the sequence the decoder is to return
Embedded(t, sp) == AsSequence(json_loads(SubSeq(t, sp[1], sp[2])).val)

\* the span from the first to the last bracket or brace of the text: the one
\* span that can hold a structure when the text around it holds neither
BracketSpan(t) ==
    LET marks == {k \in 1..Len(t) : t[k] \in (OpenToks \cup CloseToks)}
    IN  IF marks = {} THEN <<1, 0>>
        ELSE <<CHOOSE k \in marks : \A m \in marks : k <= m,
               CHOOSE k \in marks : \A m \in marks : m <= k>>

\* the text is one JSON array or object in text without brackets or braces
EmbeddedInProse(t) == IsJsonAt(t, BracketSpan(t)[1], BracketSpan(t)[2])

ArraySpanFirst(content) ==
    /\ HasSpan(Find(content, LBracket), RFind(content, RBracket))
    /\ HasSpan(Find(content, LBrace), RFind(content, RBrace))
    /\ Find(content, LBracket) < Find(content, LBrace)

\* json.loads of the array span
ArraySpanValue(content) ==
    json_loads(SubSeq(content, Find(content, LBracket), RFind(content, RBracket)))

\* C4 as claimed: whenever the text holds both spans and the array span
\* starts first, what the decoder returns is the contents of the array span,
\* not the object wrapped as a one-element sequence.
C4_ArrayPreferred ==
    LET content == StripFence(response)
    IN  (dstep = "decoded" /\ ArraySpanFirst(content) /\ decoded.ok)
            => /\ ArraySpanValue(content).ok
               /\ decoded.val = ArraySpanValue(content).val

\* C4 as amended: the same when the array span is valid JSON; the decoder
\* then returns, and returns the contents of the array span.
C4_ArrayPreferredWhenValid ==
    LET content == StripFence(response)
    IN  (dstep = "decoded" /\ ArraySpanFirst(content) /\ ArraySpanValue(content).ok)
            => decoded = Returned(ArraySpanValue(content).val)

\* the array span was preferred after the direct parse had failed
C4_Witness ==
    LET content == StripFence(response)
    IN  /\ dstep = "decoded"
        /\ ArraySpanFirst(content) /\ ArraySpanValue(content).ok
        /\ ~json_loads(content).ok
        /\ decoded.ok /\ Len(decoded.val.items) >= 2

\* C5: whenever the decoder returns, the returned sequence is not empty.
C5_NeverEmpty ==
    (dstep = "decoded" /\ decoded.ok) => decoded.val.items # <<>>


\* ---- find_matching_task (C6) ----

\* the keyword occurs in the title, letter case ignored
ContainsIgnoringCase(title, keyword) ==
    \E i \in 0..(Len(title) - Len(keyword)) :
        \A j \in 1..Len(keyword) : LowerChar(title[i + j]) = LowerChar(keyword[j])

\* the title of a stored task, empty when it has none
TitleOf(task) == IF "title" \in DOMAIN task.d THEN task.d["title"].s ELSE <<>>

\* the positions of the tasks whose title holds the keyword
Matching == {i \in 1..Len(tasks) : ContainsIgnoringCase(TitleOf(tasks[i]), task_match)}

RECURSIVE ValidForms(_)
ValidForms(records) ==
    IF records = <<>> THEN <<>>
    ELSE LET v == validate_task_data(Head(records))
         IN  (IF v.ok THEN <<v.val>> ELSE <<>>) \o ValidForms(Tail(records))

\* the batch that the model path decodes, when it decodes one
ModelBatch == parse_task_from_nl(reply)
ModelValid == IF ModelBatch.ok THEN ValidForms(ModelBatch.val.items) ELSE <<>>

\* the drafts that the fallback extractor may produce for the input text
FallbackDrafts ==
    {parse_task_metadata(natural_language, r) :
        r \in SUBSET {k \in DuePatterns : DueMatches(k, natural_language)}}

\* the result of a call that ends by validating the fallback draft d
FallbackResult(d) ==
    LET v == validate_task_data(d)
    IN  IF v.ok THEN Returned(ListVal(<<v.val>>)) ELSE Raised(v.err)

Occurs(e) == \E i \in 1..Len(trace) : trace[i] = e
AtMostOnce(e) == \A i, j \in 1..Len(trace) : trace[i] = e /\ trace[j] = e => i = j

\* C7: when at least one record of the model's batch passes validation, the
\* call returns exactly the validated forms of the valid records in their
\* order; the invalid records are dropped, the call does not fail and the
\* fallback extractor is not run.
C7_ValidRecordsKept ==
    ModelValid # <<>> =>
        /\ ~Occurs("extract")
        /\ pc \notin {"fallback", "fallback_validate", "raised"}
        /\ pc \in Terminal => outcome = Returned(ListVal(ModelValid))

\* a batch of three records: the first and the last valid, a number between
C7_Witness ==
    /\ pc = "returned"
    /\ Len(task_data_list) = 3
    /\ task_data_list[2].kind = "num"
    /\ Len(outcome.val.items) = 2
    /\ outcome.val.items[1].d.title # outcome.val.items[2].d.title

\* C8: when the model call fails with a transport error or the decoder
\* fails, that error never reaches the caller: the fallback extractor runs on
\* the input text and the call ends as the validation of its draft ends.
C8_ModelErrorNotPropagated ==
    ~ModelBatch.ok =>
        /\ outcome.err \notin {APIError, InvalidJson}
        /\ pc \in Terminal =>
              /\ Occurs("extract")
              /\ draft \in FallbackDrafts
              /\ outcome = FallbackResult(draft)

\* the transport failed and the draft of the fallback, with a due date, is
\* the result
C8_Witness ==
    /\ pc = "returned"
    /\ reply.fails
    /\ "due_date" \in DOMAIN outcome.val.items[1].d

\* C9: the call fails exactly when the model path yields no valid record and
\* the draft of the fallback extractor fails validation; otherwise it returns
\* a non-empty sequence of validated tasks.
C9_FailsIff ==
    pc \in Terminal =>
        /\ ~outcome.ok <=> /\ ModelValid = <<>>
                           /\ draft \in FallbackDrafts
                           /\ ~validate_task_data(draft).ok
        /\ outcome.ok => /\ outcome.val.kind = "list"
                         /\ outcome.val.items # <<>>
                         /\ \A i \in 1..Len(outcome.val.items) :
                                /\ outcome.val.items[i].kind = "dict"
                                /\ "title" \in DOMAIN outcome.val.items[i].d
        /\ pc = "raised" <=> ~outcome.ok

\* every record of a batch is invalid and the text holds a priority word
\* alone: its draft has an empty title
C9_Witness ==
    /\ pc = "raised"
    /\ Len(task_data_list) >= 2
    /\ natural_language # <<>>
    /\ Strip(natural_language) # <<>>

\* the order of the steps recorded in trace
StepOrder ==
    /\ trace # <<>> => trace[1] = "model_call"
    /\ pc \in Terminal => Occurs("model_call")
    /\ AtMostOnce("model_call") /\ AtMostOnce("extract")
    /\ AtMostOnce("validate_draft") /\ AtMostOnce("accept")
    /\ \A i \in 1..Len(trace) :
          /\ trace[i] = "validate_record" =>
                i > 1 /\ trace[i - 1] \in {"model_call", "validate_record"}
          /\ trace[i] = "batch_empty" =>
                i > 1 /\ trace[i - 1] \in {"model_call", "validate_record"}
          /\ trace[i] = "extract" =>
                /\ i > 1 /\ trace[i - 1] \in {"model_call", "batch_empty"}
                /\ ModelValid = <<>>
          /\ trace[i] = "validate_draft" => i > 1 /\ trace[i - 1] = "extract"
          /\ trace[i] = "accept" =>
                /\ i = Len(trace)
                /\ i > 1 /\ trace[i - 1] \in {"validate_record", "validate_draft"}
          /\ trace[i] = "fail" => i = Len(trace) /\ i > 1 /\ trace[i - 1] = "validate_draft"
    /\ ModelValid # <<>> => ~Occurs("extract")
    /\ Occurs("accept") <=> pc = "returned"

\* C10: the model is attempted exactly once and first; the fallback extractor
\* runs at most once, only after the model attempt ended in an error or in no
\* valid record, and never when the model produced a valid record; once the
\* call has ended no further step is taken; every call ends.
C10_StepOrder ==
    /\ []StepOrder
    /\ [][pc \notin Terminal]_vars
    /\ pc = "received" ~> pc \in Terminal

\* a batch was validated record by record, no record was valid, and the
\* draft of the fallback was accepted
C10_Witness ==
    /\ pc = "returned"
    /\ Occurs("validate_record")
    /\ Occurs("batch_empty")
    /\ Occurs("extract")

\* ---- validate_task_data, field by field ----

\* the input is a mapping whose title the validator accepts
ValidTitleInput == task_data.kind = "dict" /\ HasTruthy(task_data.d, "title")

\* C15: validation never fails because of priority: for an input with a
\* valid title that supplies a priority, the output priority is the
\* lower-cased input when that is low, medium or high, and medium otherwise;
\* every priority of a validated task is one of the three.
C15_PriorityCoerced ==
    (vstep # "input" /\ ValidTitleInput) =>
        /\ validated.ok
        /\ "priority" \in DOMAIN task_data.d =>
              /\ "priority" \in DOMAIN validated.val.d
              /\ validated.val.d["priority"] =
                    IF Lower(PyStr(task_data.d["priority"])) \in {LOW, MEDIUM, HIGH}
                    THEN StrVal(Lower(PyStr(task_data.d["priority"])))
                    ELSE StrVal(MEDIUM)
        /\ "priority" \in DOMAIN validated.val.d =>
              validated.val.d["priority"].s \in {LOW, MEDIUM, HIGH}

\* an upper-case HIGH came out as high
C15_Witness ==
    /\ vstep = "validated"
    /\ ValidTitleInput
    /\ "priority" \in DOMAIN task_data.d
    /\ task_data.d["priority"] = StrVal(<<"H", "I", "G", "H">>)
    /\ validated.val.d["priority"] = StrVal(HIGH)

\* C16: for an input with a valid title the output holds a status only when
\* the input supplied one whose lower-cased value is pending, in_progress or
\* completed, and then it is that value; otherwise the output has no status.
C16_StatusKeptOrDropped ==
    (vstep # "input" /\ ValidTitleInput) =>
        /\ validated.ok
        /\ "status" \in DOMAIN validated.val.d <=>
              /\ "status" \in DOMAIN task_data.d
              /\ Lower(PyStr(task_data.d["status"])) \in {PENDING, IN_PROGRESS, COMPLETED}
        /\ "status" \in DOMAIN validated.val.d =>
              validated.val.d["status"] = StrVal(Lower(PyStr(task_data.d["status"])))

\* a status that is none of the three was supplied and the output has none
C16_Witness ==
    /\ vstep = "validated"
    /\ ValidTitleInput
    /\ "status" \in DOMAIN task_data.d
    /\ Lower(PyStr(task_data.d["status"])) \notin {PENDING, IN_PROGRESS, COMPLETED}
    /\ validated.ok
    /\ "status" \notin DOMAIN validated.val.d

\* the tags of the input that are truthy, in their order
RECURSIVE TruthyTags(_)
TruthyTags(xs) ==
    IF xs = <<>> THEN <<>>
    ELSE (IF Truthy(Head(xs)) THEN <<Head(xs)>> ELSE <<>>) \o TruthyTags(Tail(xs))

\* C17: for an input with a valid title, every element of the validated tags
\* is a trimmed, non-empty string, and the elements are the kept elements of
\* the input in their order, duplicates included.
C17_TagsTrimmedNonEmpty ==
    (vstep # "input" /\ ValidTitleInput /\ validated.ok
        /\ Strip(PyStr(task_data.d["title"])) # <<>>
        /\ "tags" \in DOMAIN validated.val.d) =>
        LET out  == validated.val.d["tags"].items
            kept == TruthyTags(task_data.d["tags"].items)
        IN  /\ \A i \in 1..Len(out) :
                  /\ out[i].kind = "str"
                  /\ out[i].s # <<>>
                  /\ Strip(out[i].s) = out[i].s
            /\ Len(out) = Len(kept)
            /\ \A i \in 1..Len(out) : out[i].s = Strip(PyStr(kept[i]))

\* C18: for an input with a valid title and a truthy due_date, the validated
\* due_date is the string form of the input when that holds no '/', and
\* otherwise the part before the first '/'; it never holds a '/'.
C18_DueDateCut ==
    (vstep # "input" /\ ValidTitleInput /\ HasTruthy(task_data.d, "due_date")) =>
        LET given == PyStr(task_data.d["due_date"])
        IN  /\ validated.ok
            /\ "due_date" \in DOMAIN validated.val.d
            /\ LET out == validated.val.d["due_date"].s
               IN  /\ ~Contains(out, <<"/">>)
                   /\ IF \E i \in 1..Len(given) : given[i] = "/"
                      THEN \E i \in 1..Len(given) :
                              /\ given[i] = "/"
                              /\ \A j \in 1..(i - 1) : given[j] # "/"
                              /\ out = SubSeq(given, 1, i - 1)
                      ELSE out = given

\* an interval was cut to its start
C18_Witness ==
    /\ vstep = "validated"
    /\ ValidTitleInput
    /\ HasTruthy(task_data.d, "due_date")
    /\ task_data.d["due_date"] = StrVal(<<"d", "/", "e">>)
    /\ validated.val.d["due_date"] = StrVal(<<"d">>)

\* ---- the fallback extractor ----

\* some keyword of the sequence occurs in the lower-cased text
Hit(keywords) ==
    \E k \in 1..Len(keywords) :
        \E i \in 0..(Len(input_text) - Len(keywords[k])) :
            \A j \in 1..Len(keywords[k]) : LowerChar(input_text[i + j]) = keywords[k][j]

\* C19: the fallback priority is high whenever the lower-cased text holds a
\* high-priority keyword, a low-priority keyword or not; low when it holds a
\* low-priority keyword and no high one; medium when it holds neither.
C19_HighBeforeLow ==
    estep = "extracted" =>
        extracted.d["priority"] =
            IF Hit(high_keywords) THEN StrVal(HIGH)
            ELSE IF Hit(low_keywords) THEN StrVal(LOW)
            ELSE StrVal(MEDIUM)

\* a text that holds a low-priority keyword before a high-priority one
C19_Witness ==
    /\ estep = "extracted"
    /\ Hit(high_keywords) /\ Hit(low_keywords)
    /\ Len(input_text) >= 3
    /\ SubSeq(input_text, 1, 3) = <<"l", "o", "w">>
    /\ extracted.d["priority"] = StrVal(HIGH)

\* the names of the categories in the order the claim gives
DeclaredOrder ==
    << <<"w", "o", "r", "k">>, <<"p", "e", "r", "s", "o", "n", "a", "l">>,
       <<"s", "h", "o", "p", "p", "i", "n", "g">>, <<"h", "o", "m", "e">>,
       <<"f", "i", "n", "a", "n", "c", "e">>, <<"l", "e", "a", "r", "n", "i", "n", "g">>,
       <<"s", "o", "c", "i", "a", "l">> >>

\* C20: the fallback category is the first category, in the order work,
\* personal, shopping, home, finance, learning, social, that has a keyword in
\* the lower-cased text, wherever its keywords stand; none when no category
\* has one.
C20_FirstDeclaredCategory ==
    estep = "extracted" =>
        /\ Len(categories) = Len(DeclaredOrder)
        /\ \A c \in 1..Len(categories) : categories[c].name = DeclaredOrder[c]
        /\ \A c \in 1..Len(categories) :
              extracted.d["category"] = StrVal(DeclaredOrder[c]) <=>
                  /\ Hit(categories[c].keywords)
                  /\ \A b \in 1..(c - 1) : ~Hit(categories[b].keywords)
        /\ extracted.d["category"] = NoneVal <=>
              \A c \in 1..Len(categories) : ~Hit(categories[c].keywords)

\* a social keyword stands before a shopping keyword: shopping is inferred
C20_Witness ==
    /\ estep = "extracted"
    /\ Len(input_text) >= 8
    /\ SubSeq(input_text, 1, 8) = <<"c", "a", "l", "l", " ", "b", "u", "y">>
    /\ extracted.d["category"] = StrVal(<<"s", "h", "o", "p", "p", "i", "n", "g">>)

----------------------------------------------------------------------------
(* Smart update and smart add.                                             *)

UpdateTools == {"smart_update", "/ai/update"}

\* an update handler has answered after extract_task_update returned a
\* command whose task_match is a non-empty string and whose updates are
\* non-empty
UpdateExtracted ==
    /\ tool \in UpdateTools /\ hstep = "answered"
    /\ update_info.ok /\ update_info.val.kind = "dict"
    /\ DictGet(update_info.val, "task_match", StrVal(<<>>)).kind = "str"
    /\ DictGet(update_info.val, "task_match", StrVal(<<>>)).s # <<>>
    /\ Truthy(DictGet(update_info.val, "updates", DictVal(EmptyDict)))

ExtractedMatch == DictGet(update_info.val, "task_match", StrVal(<<>>)).s
ExtractedUpdates == DictGet(update_info.val, "updates", DictVal(EmptyDict))

\* the stored task's title contains the extracted task_match, case ignored
TitleContainsMatch(task) == Contains(Lower(task.d["title"].s), Lower(ExtractedMatch))

\* the stored tasks whose title contains the extracted task_match, in list order
MatchingStored == SelectSeq(all_tasks, TitleContainsMatch)

UpdateCalls == SelectSeq(db_calls, LAMBDA call : call.op = "update_task")

\* C11: in smart update, after an extraction with a non-empty task_match
\* and non-empty updates, more than one matching title gives a reply that
\* shows the first 5 matching tasks in list order (all of them when there
\* are fewer) and no call of db.update_task; no matching title gives the
\* no task found reply and no call of db.update_task.
C11_AmbiguousOrNoneNeverUpdates ==
    UpdateExtracted =>
        /\ Len(MatchingStored) > 1 =>
              /\ tool_reply.kind = "ambiguous"
              /\ Len(tool_reply.shown) <= 5
              /\ tool_reply.shown =
                    [i \in 1..(IF Len(MatchingStored) < 5 THEN Len(MatchingStored) ELSE 5)
                        |-> MatchingStored[i]]
              /\ UpdateCalls = <<>>
        /\ Len(MatchingStored) = 0 =>
              /\ tool_reply.kind = "not_found"
              /\ UpdateCalls = <<>>

\* six stored titles match and five of them are shown
C11_Witness ==
    /\ UpdateExtracted
    /\ Len(MatchingStored) = 6
    /\ tool_reply.kind = "ambiguous"
    /\ Len(tool_reply.shown) = 5

\* db.update_task was called exactly once, with the id of the one matching
\* task and the extracted updates
UpdatedOnce ==
    /\ Len(UpdateCalls) = 1
    /\ UpdateCalls[1].id = MatchingStored[1].d["id"]
    /\ UpdateCalls[1].arg = ExtractedUpdates

\* the reply reports success for the one matching task with its new columns
ReportsSuccess ==
    /\ tool_reply.kind = "success"
    /\ tool_reply.task.kind = "dict"
    /\ tool_reply.task.d["id"] = MatchingStored[1].d["id"]
    /\ \A k \in DOMAIN ExtractedUpdates.d :
          tool_reply.task.d[k] = ExtractedUpdates.d[k]

\* C12 as stated: with exactly one matching title db.update_task is called
\* once with that task's id and the extracted updates, and the reply
\* reports success.
C12_UniqueMatchUpdated ==
    (UpdateExtracted /\ Len(MatchingStored) = 1) =>
        UpdatedOnce /\ ReportsSuccess

\* C12, amended: with exactly one matching title db.update_task is called
\* once with that task's id and the extracted updates; the reply reports
\* success when the updates are a mapping and the store does not fail, and
\* reports the error of the call otherwise.
C12_UniqueMatchUpdatedWhenStoreReturns ==
    (UpdateExtracted /\ Len(MatchingStored) = 1) =>
        /\ UpdatedOnce
        /\ IF ExtractedUpdates.kind = "dict" /\ db_raises # "write"
           THEN ReportsSuccess
           ELSE tool_reply.kind = "error"
                /\ tool_reply.detail \in {DBError, IndexTypeError}

\* one of two stored titles matches and its task is reported completed
C12_Witness ==
    /\ UpdateExtracted
    /\ Len(all_tasks) > 1
    /\ Len(MatchingStored) = 1
    /\ UpdatedOnce
    /\ tool_reply.kind = "success"
    /\ tool_reply.task.d["status"] = StrVal(COMPLETED)

\* C13: handle_smart_add with a non-empty natural_language for which
\* parse_task_nl returned, and a store that does not fail, calls
\* db.create_task exactly once with a status and replies that the task
\* was created, with its title.
C13_SmartAddCreates ==
    (/\ tool = "smart_add" /\ hstep = "answered"
     /\ arguments # <<>> /\ update_info.ok /\ db_raises # "write") =>
        /\ Len(db_calls) = 1
        /\ db_calls[1].op = "create_task"
        /\ db_calls[1].arg.kind = "dict"
        /\ "status" \in DOMAIN db_calls[1].arg.d
        /\ tool_reply.kind = "created"
        /\ "title" \in DOMAIN tool_reply.task.d

\* the JSON text extract_task_update decodes
UpdateText == UpdateJson(chat.text, Find(chat.text, LBrace), RFind(chat.text, RBrace))

\* C14: when the model call inside extract_task_update fails, or its reply
\* cannot be decoded, the caller receives that very error.
C14_UpdateErrorSurfacedAsIs ==
    (tool \in UpdateTools /\ hstep = "answered" /\ update_info # NotCalled) =>
        /\ chat.fails => update_info = Raised(APIError)
        /\ (~chat.fails /\ ~json_loads(UpdateText).ok) =>
              update_info = json_loads(UpdateText)


\* ---- validate_task_data: the keys of the output ----

SchemaKeys == {"title", "description", "priority", "status", "category",
               "due_date", "tags"}

\* C28: the result of validate_task_data holds only keys among title,
\* description, priority, status, category, due_date and tags, on its first
\* call and on a call on its own output; a key such as id of the input is
\* not in the output.
C28_OnlySchemaKeys ==
    /\ (vstep # "input" /\ validated.ok) =>
          /\ validated.val.kind = "dict"
          /\ DOMAIN validated.val.d \subseteq SchemaKeys
          /\ "id" \notin DOMAIN validated.val.d
    /\ (vstep = "revalidated" /\ revalidated.ok) =>
          DOMAIN revalidated.val.d \subseteq SchemaKeys

\* an input that carries an id was validated
C28_Witness ==
    /\ vstep = "validated"
    /\ task_data.kind = "dict"
    /\ "id" \in DOMAIN task_data.d
    /\ "tags" \in DOMAIN task_data.d
    /\ validated.ok
    /\ "id" \notin DOMAIN validated.val.d


\* ---- extract_task_update: what it returns ----

\* C27: whenever extract_task_update returns, the value is a mapping; a
\* reply that decodes to an array, a number or a string is rejected with
\* the update-parse failure.
C27_UpdateCommandIsObject ==
    (tool \in UpdateTools /\ hstep = "answered" /\ update_info.ok) =>
        update_info.val.kind = "dict"


\* ---- the fields the natural-language paths write ----

\* the calls of the store that write a task
WriteCalls == SelectSeq(db_calls, LAMBDA call : call.op \in {"create_task", "update_task"})

\* the written fields satisfy the task schema
SchemaValues(fields) ==
    /\ "status" \in DOMAIN fields =>
          fields["status"] \in {StrVal(PENDING), StrVal(IN_PROGRESS), StrVal(COMPLETED)}
    /\ "priority" \in DOMAIN fields =>
          fields["priority"] \in {StrVal(LOW), StrVal(MEDIUM), StrVal(HIGH)}
    /\ "title" \in DOMAIN fields =>
          fields["title"].kind = "str" /\ fields["title"].s # <<>>

\* C26: whatever the model returned, every mapping that smart add and smart
\* update hand to db.create_task or db.update_task has a status among
\* pending, in_progress, completed, a priority among low, medium, high and a
\* non-empty title, where it has these fields.
C26_WritesSatisfySchema ==
    \A i \in 1..Len(WriteCalls) :
        WriteCalls[i].arg.kind = "dict" => SchemaValues(WriteCalls[i].arg.d)


\* ---- the decoder's span search, step by step ----

\* json.loads of the object span
ObjectSpanValue(content) ==
    json_loads(SubSeq(content, Find(content, LBrace), RFind(content, RBrace)))

\* the array span exists and starts before the first brace, or the text
\* holds no object span
ArrayAttemptDue(content) ==
    /\ HasSpan(Find(content, LBracket), RFind(content, RBracket))
    /\ \/ ~HasSpan(Find(content, LBrace), RFind(content, RBrace))
       \/ Find(content, LBracket) < Find(content, LBrace)

\* what the object span gives: the object as a one-element sequence
ObjectSpanResult(content) ==
    IF HasSpan(Find(content, LBrace), RFind(content, RBrace))
       /\ ObjectSpanValue(content).ok
       /\ ObjectSpanValue(content).val.kind = "dict"
    THEN Returned(ListVal(<<ObjectSpanValue(content).val>>))
    ELSE Raised(InvalidJson)

\* C23: when the direct parse of the fence-stripped text fails and an array
\* span exists, the array span is parsed whenever it starts before the
\* first brace or the text holds no object span; its value is the result
\* when that parse succeeds, and the object span is tried only otherwise.
C23_ArraySpanTriedFirst ==
    LET content == StripFence(response)
    IN  (/\ dstep = "decoded"
         /\ ~json_loads(content).ok
         /\ HasSpan(Find(content, LBracket), RFind(content, RBracket))) =>
            IF ArrayAttemptDue(content) /\ ArraySpanValue(content).ok
            THEN decoded = Returned(ArraySpanValue(content).val)
            ELSE decoded = ObjectSpanResult(content)


\* ---- parse_task_metadata: the due date ----

\* the due date patterns that match the text
DueMatching == {k \in DuePatterns : DueMatches(k, input_text)}

\* the patterns whose phrase was passed to parse_datetime, in call order
CalledPatterns == [i \in 1..Len(due_calls) |-> due_calls[i].pattern]

\* C24: parse_task_metadata passes the phrases of the matching patterns to
\* parse_datetime in the declared order of the patterns, one call for a
\* pattern, every call before the last returning no value; a value returned
\* becomes due_date and ends the calls; when no call returns a value every
\* matching pattern was called and the draft has no due_date.
C24_DueDateFirstResolved ==
    estep = "extracted" =>
        /\ \A i \in 1..Len(due_calls) : CalledPatterns[i] \in DueMatching
        /\ \A i, j \in 1..Len(due_calls) : i < j => CalledPatterns[i] < CalledPatterns[j]
        /\ \A i \in 1..(Len(due_calls) - 1) : due_calls[i].value = NoneVal
        /\ IF due_calls # <<>> /\ due_calls[Len(due_calls)].value # NoneVal
           THEN /\ "due_date" \in DOMAIN extracted.d
                /\ extracted.d["due_date"] = due_calls[Len(due_calls)].value
                /\ {CalledPatterns[i] : i \in 1..Len(due_calls)} =
                      {k \in DueMatching : k <= CalledPatterns[Len(due_calls)]}
           ELSE /\ "due_date" \notin DOMAIN extracted.d
                /\ {CalledPatterns[i] : i \in 1..Len(due_calls)} = DueMatching

\* three patterns match; the first does not resolve, the second does and the
\* third is not called
C24_Witness ==
    /\ estep = "extracted"
    /\ Cardinality(DueMatching) = 3
    /\ Len(due_calls) = 2
    /\ due_calls[1].value = NoneVal
    /\ "due_date" \in DOMAIN extracted.d
    /\ extracted.d["due_date"] = due_calls[2].value


\* ---- handle_update_task ----

\* the fields the caller provided with a value that is not null
ProvidedFields ==
    {f \in {"title", "description", "status", "priority", "category", "due_date"} :
        f \in DOMAIN tool_args.d /\ tool_args.d[f].kind # "null"}

\* C21: handle_update_task, given a task_id, makes one db.update_task call
\* for that id with exactly the fields among title, description, status,
\* priority, category and due_date that the arguments hold with a non-null
\* value, each with its value; when there is no such field it replies that
\* no updates were provided and makes no call to the store.
C21_ExactlyProvidedFields ==
    (/\ tool = "handle_update_task" /\ hstep = "answered"
     /\ tool_args.kind = "dict" /\ "task_id" \in DOMAIN tool_args.d) =>
        IF ProvidedFields = {}
        THEN tool_reply.kind = "no_updates" /\ db_calls = <<>>
        ELSE /\ Len(db_calls) = 1
             /\ db_calls[1].op = "update_task"
             /\ db_calls[1].id = tool_args.d["task_id"]
             /\ DOMAIN db_calls[1].arg.d = ProvidedFields
             /\ \A f \in ProvidedFields : db_calls[1].arg.d[f] = tool_args.d[f]

\* an empty title and a status were passed on; a null description and the
\* tags were not
C21_Witness ==
    /\ tool = "handle_update_task" /\ hstep = "answered"
    /\ tool_args.kind = "dict"
    /\ DOMAIN tool_args.d = {"task_id", "title", "description", "status", "tags"}
    /\ tool_args.d["title"] = StrVal(<<>>)
    /\ tool_args.d["description"] = NoneVal
    /\ Len(db_calls) = 1
    /\ DOMAIN db_calls[1].arg.d = {"title", "status"}
    /\ tool_reply.kind = "success"


\* ---- natural-language search ----

SearchTools == {"search_tasks", "/ai/search"}

\* a search handler has answered a query through search_tasks_nl
SearchAnswered ==
    tool \in SearchTools /\ hstep = "answered" /\ update_info # NotCalled

\* the model call failed or its text could not be decoded
FiltersUndecoded == chat.fails \/ ~json_loads(UpdateText).ok

\* C22: a search handler never answers with an error unless the store
\* failed; when the model call or the decoding fails, search_tasks_nl
\* returns {search_text: query}; the handler calls db.search_tasks with
\* filters['search_text'] exactly when the filters hold that key, and
\* db.list_tasks with the status and priority of the filters otherwise.
C22_SearchNeverFailsOnModel ==
    SearchAnswered =>
        /\ db_raises = "none" => tool_reply.kind # "error"
        /\ FiltersUndecoded => update_info = Returned(TextSearch(arguments))
        /\ update_info.ok
        /\ update_info.val.kind = "dict" =>
              db_calls =
                 IF "search_text" \in DOMAIN update_info.val.d
                 THEN <<DbCall("search_tasks", NoneVal, update_info.val.d["search_text"])>>
                 ELSE <<DbCall("list_tasks", NoneVal,
                               DictVal([status |-> DictGet(update_info.val, "status", NoneVal),
                                        priority |-> DictGet(update_info.val, "priority", NoneVal)]))>>


\* ---- POST /ai/smart-add ----

\* the route has answered a request whose text parse_task_nl turned into a
\* list of validated tasks
BatchParsed == tool = "/ai/smart-add" /\ hstep = "answered" /\ update_info.ok

\* the validated tasks of the batch
BatchTasks == update_info.val.items

\* the validated task with status pending put in when it has none
WithPending(task) ==
    DictVal([k \in DOMAIN task.d \cup {"status"} |->
                IF k \in DOMAIN task.d THEN task.d[k] ELSE StrVal(PENDING)])

\* the number of the db.create_task call on which the store fails, 0 when
\* it fails on none of the batch
FailingCall ==
    IF db_raises = "write" /\ BatchTasks # <<>> THEN 1
    ELSE IF fail_at \in 1..Len(BatchTasks) THEN fail_at ELSE 0

\* the rows the route added to the store
CreatedRows ==
    SelectSeq(all_tasks, LAMBDA row : /\ row.kind = "dict"
                                      /\ "id" \in DOMAIN row.d
                                      /\ row.d["id"] = StrVal(<<"n">>))

\* C29: POST /ai/smart-add calls db.create_task for the validated tasks in
\* batch order, each with a status (pending when it has none); when the
\* call number k fails, the first k-1 tasks are in the store, no later call
\* is made and the answer is HTTP 500; when no call fails every task is in
\* the store and the answer holds the created tasks.
C29_BatchCreatedUntilFailure ==
    BatchParsed =>
        /\ Len(db_calls) = (IF FailingCall = 0 THEN Len(BatchTasks) ELSE FailingCall)
        /\ \A i \in 1..Len(db_calls) :
              /\ db_calls[i].op = "create_task"
              /\ db_calls[i].arg = WithPending(BatchTasks[i])
        /\ Len(CreatedRows) = (IF FailingCall = 0 THEN Len(BatchTasks) ELSE FailingCall - 1)
        /\ \A i \in 1..Len(CreatedRows) :
              /\ CreatedRows[i].d["title"] = BatchTasks[i].d["title"]
              /\ CreatedRows[i].d["status"] = WithPending(BatchTasks[i]).d["status"]
        /\ IF FailingCall = 0
           THEN tool_reply.kind = "created" /\ tool_reply.code = 200
           ELSE tool_reply.kind = "error" /\ tool_reply.code = 500

\* the store failed on the second of three tasks: the first is stored, the
\* third was not tried
C29_Witness ==
    /\ BatchParsed
    /\ Len(BatchTasks) = 3
    /\ FailingCall = 2
    /\ Len(db_calls) = 2
    /\ Len(CreatedRows) = 1
    /\ tool_reply.code = 500


\* ---- call_tool ----

\* call_tool has been called once
ToolCalled == tool = "call_tool" /\ hstep = "answered"

\* the arguments are a mapping without the key
LacksKey(key) == tool_args.kind = "dict" /\ key \notin DOMAIN tool_args.d

\* the exception the CRUD handler of the called tool raises on the given
\* arguments and store, "" when it raises none or the tool is no CRUD tool
CrudError ==
    CASE tool_name = "add_task" ->
            IF tool_args.kind # "dict" THEN SubscriptError
            ELSE IF LacksKey("title") THEN KeyError
            ELSE IF db_raises = "write" THEN DBError ELSE ""
      [] tool_name = "list_tasks" ->
            IF tool_args.kind # "dict" THEN AttributeError
            ELSE IF db_raises = "list_tasks" THEN DBError ELSE ""
      [] tool_name = "update_task" ->
            IF tool_args.kind # "dict" THEN SubscriptError
            ELSE IF LacksKey("task_id") THEN KeyError
            ELSE IF \A f \in UpdateFields : f \in DOMAIN tool_args.d => tool_args.d[f] = NoneVal
            THEN ""
            ELSE IF db_raises = "write" THEN DBError
            ELSE IF \A i \in 1..Len(all_tasks) : all_tasks[i].d["id"] # tool_args.d["task_id"]
            THEN "ValueError: Task not found" ELSE ""
      [] tool_name = "delete_task" ->
            IF tool_args.kind # "dict" THEN SubscriptError
            ELSE IF LacksKey("task_id") THEN KeyError
            ELSE IF db_raises = "write" THEN DBError ELSE ""
      [] OTHER -> ""

\* C30: call_tool never raises and returns a list of one reply; for an
\* unknown name the reply is 'Unknown tool: <name>' and no handler and no
\* store call was made; for a known name that one handler was called, and
\* the reply is 'Error: <message>' exactly when the handler raised, with the
\* message of its exception.
C30_CallToolNeverRaises ==
    ToolCalled =>
        /\ call_raised = ""
        /\ Len(tool_result) = 1
        /\ tool_name \notin ToolNames =>
              /\ tool_result[1].kind = "unknown_tool"
              /\ tool_result[1].detail = tool_name
              /\ handlers_called = <<>>
              /\ db_calls = <<>>
        /\ tool_name \in ToolNames =>
              /\ handlers_called = <<tool_name>>
              /\ (tool_result[1].kind = "tool_error") <=> (CrudError # "")
              /\ CrudError # "" => tool_result[1].detail = CrudError

\* update_task on an id the store does not hold: 'Task not found' comes back
\* as the one error reply
C30_Witness ==
    /\ ToolCalled
    /\ tool_name = "update_task"
    /\ call_raised = ""
    /\ tool_result = <<Reply("tool_error", 0, "ValueError: Task not found", NoneVal, <<>>, 0)>>
    /\ Len(db_calls) = 1


\* ---- get_groq_client and get_task_agent under threads ----

\* the handle the called function guards
Guarded == IF getter.name = "get_groq_client" THEN "groq" ELSE "agent"

\* the identity of the instance thread t was returned, 0 before it returns
Obtained(t) ==
    IF getter.name = "get_groq_client" THEN thread_got[t].groq
    ELSE thread_got[t].agent.id

\* thread t found the guarded handle unset
PassedCheck(t) == saw_unset[t][Guarded]

\* C25: a caller that has returned holds an instance some constructor run
\* made; two callers hold different instances only when the constructor ran
\* more than once, and it runs only for a caller that found the handle
\* unset: so at least two callers passed the test before either stored,
\* and with a single constructor run all callers share one instance.
C25_DifferentOnlyWhenConstructedTwice ==
    /\ \A t \in Threads :
          thread_pc[t] = "done" => Obtained(t) \in 1..constructed[Guarded]
    /\ \A t1, t2 \in Threads :
          (/\ thread_pc[t1] = "done" /\ thread_pc[t2] = "done"
           /\ Obtained(t1) # Obtained(t2))
          => /\ constructed[Guarded] > 1
             /\ Cardinality({t \in Threads : PassedCheck(t)}) > 1
    /\ constructed[Guarded] <= Cardinality({t \in Threads : PassedCheck(t)})

\* the interleaving of the claim: two callers have returned, both had found
\* the handle unset, the constructor ran twice and they hold different
\* instances
C25_Witness ==
    \E t1, t2 \in Threads :
        /\ t1 # t2
        /\ thread_pc[t1] = "done" /\ thread_pc[t2] = "done"
        /\ PassedCheck(t1) /\ PassedCheck(t2)
        /\ constructed[Guarded] = 2
        /\ Obtained(t1) # Obtained(t2)


=============================================================================
